---- MODULE Spec2Model ----
(***************************************************************************)
(* ramchi: conditional activation and composition of middleware, routers   *)
(* and routes on a chi mux (Server.initMux), the built-in logging and CORS *)
(* middleware, and the dispatch of a request through the built handler.    *)
(*                                                                         *)
(* Strings that are taken apart by the code (router prefixes, route paths, *)
(* mux patterns, request paths) are sequences of tokens: the token "/" is  *)
(* the slash, the token "*" the chi catch-all, and every other token is a  *)
(* non-empty run of characters without slash (one path segment).           *)
(***************************************************************************)
EXTENDS Integers, Sequences, FiniteSets, TLC

VARIABLES config, middlewares, routers, mux, log, exchange, pc,
          snap, instance, sigint, gopc, ctx, idle, conns, otp

\* The state of a running Start (ramchi.go:146-197): snap is what the range
\* statements of initMux have read (and, in begun, what the two lists held
\* when Start called handler()), instance the http.Server, sigint the
\* signal channel of the shutdown goroutine, gopc the position of that
\* goroutine, ctx the shutdown context, idle the s.idle channel, conns the
\* connections of the server.
life == <<snap, instance, sigint, gopc, ctx, idle, conns>>

\* otp is a call of helpers.GenerateOTP (unnamed/part_009:70-100): the
\* charset as passed, length, the variables charset, charsetLen, otp and
\* i, whether a byte has been drawn again, and what the call returned.
vars == <<config, middlewares, routers, mux, log, exchange, pc,
          snap, instance, sigint, gopc, ctx, idle, conns, otp>>

(***************************************************************************)
(* Bounds of the exploration.                                              *)
(***************************************************************************)
MaxRouters == 2
MaxMiddlewares == 2
MaxConns == 1

(***************************************************************************)
(* Token strings.                                                          *)
(***************************************************************************)
Slash == "/"
Star == "*"

EndsWithSlash(p) == Len(p) > 0 /\ p[Len(p)] = Slash

HasPrefix(s, p) == Len(p) <= Len(s) /\ SubSeq(s, 1, Len(p)) = p

\* path.Clean on slash/segment strings (no "." or ".." segments occur):
\* repeated slashes collapse, a trailing slash is dropped unless the path
\* is the root, the empty string becomes ".".
RECURSIVE collapse(_)
collapse(p) ==
    IF Len(p) <= 1 THEN p
    ELSE IF p[1] = Slash /\ p[2] = Slash THEN collapse(Tail(p))
    ELSE <<p[1]>> \o collapse(Tail(p))

Clean(p) ==
    IF p = <<>> THEN <<".">>
    ELSE LET c == collapse(p) IN
         IF Len(c) > 1 /\ EndsWithSlash(c) THEN SubSeq(c, 1, Len(c) - 1) ELSE c

\* path.Join: the non-empty leading element and every element after it,
\* separated by slashes, then Clean; "" when every element is empty.
RECURSIVE joinBuf(_, _, _)
joinBuf(elems, i, buf) ==
    IF i > Len(elems) THEN buf
    ELSE IF Len(buf) > 0 THEN joinBuf(elems, i + 1, buf \o <<Slash>> \o elems[i])
    ELSE IF elems[i] # <<>> THEN joinBuf(elems, i + 1, elems[i])
    ELSE joinBuf(elems, i + 1, buf)

Join(elems) ==
    IF \A i \in 1..Len(elems) : elems[i] = <<>> THEN <<>>
    ELSE Clean(joinBuf(elems, 1, <<>>))

(***************************************************************************)
(* Descriptors the embedding application can load.  A middleware transform *)
(* is identified by its name; a route handler by the response it writes.   *)
(***************************************************************************)
Mw(name, status, experimental) ==
    [name |-> name, status |-> status, experimental |-> experimental]

Rt(method, path, status, experimental, handler, middleware) ==
    [method |-> method, path |-> path, status |-> status,
     experimental |-> experimental, handler |-> handler, middleware |-> middleware]

Rtr(prefix, routes, status, middleware) ==
    [prefix |-> prefix, routes |-> routes, status |-> status, middleware |-> middleware]

MiddlewareCatalog ==
    { Mw("A", TRUE, FALSE), Mw("B", TRUE, TRUE),
      Mw("C", FALSE, FALSE), Mw("D", FALSE, TRUE) }

TestRoutes ==
    << Rt("GET", <<"ping">>, TRUE, FALSE, "pingAll", <<"tm1", "tm2">>),
       Rt("GET", <<"error">>, TRUE, TRUE, "errorAll", <<>>),
       Rt("GET", <<"off">>, FALSE, FALSE, "pingAll", <<"tm1">>),
       Rt("POST", <<"ping">>, FALSE, TRUE, "errorAll", <<>>) >>

ExampleRoutes == << Rt("GET", <<Slash, "demo">>, TRUE, FALSE, "pingAll", <<>>) >>

RouterCatalog ==
    { Rtr(<<"test">>, TestRoutes, TRUE, <<"rm1", "rm2">>),
      Rtr(<<"example">>, ExampleRoutes, TRUE, <<>>),
      Rtr(<<"test">>, TestRoutes, FALSE, <<"rm1">>) }

Origins == {"http://example.com", "http://evil.com", ""}

Methods == {"GET", "OPTIONS"}

RequestPaths ==
    { <<Slash, "test", Slash, "ping">>,
      <<Slash, "example", Slash, "demo">> }

\* The requests sent to the built handler: every method, path and Origin
\* header (the empty origin is a request without the header), and one
\* request for the path with a doubled slash.
Requests ==
    [method : Methods, path : RequestPaths, origin : Origins]
      \cup { [method |-> "GET", path |-> <<Slash, "example", Slash, Slash, "demo">>,
              origin |-> ""] }

(***************************************************************************)
(* Middleware layers.  A layer is one func(http.Handler) http.Handler as   *)
(* it sits in a chain: level says where it was mounted, src is the index   *)
(* of the descriptor it came from (0 for the built-ins), origins is the    *)
(* allowedOrigins list the CORS closure captured.                          *)
(***************************************************************************)
Layer(level, kind, name, src, origins) ==
    [level |-> level, kind |-> kind, name |-> name, src |-> src, origins |-> origins]

\* NewLoggingMiddleware: "ramchi_logger_inject", enabled, not experimental.
NewLoggingMiddleware ==
    [name |-> "ramchi_logger_inject", status |-> TRUE, experimental |-> FALSE,
     method |-> Layer("global", "logger", "ramchi_logger_inject", 0, <<>>)]

\* NewCORSMiddleware(allowedOrigins): "ramchi_cors", enabled, not experimental.
NewCORSMiddleware(allowedOrigins) ==
    [name |-> "ramchi_cors", status |-> TRUE, experimental |-> FALSE,
     method |-> Layer("global", "cors", "ramchi_cors", 0, allowedOrigins)]

(***************************************************************************)
(* The chi mux as initMux uses it.                                         *)
(*   middlewares  the stack built by Use, first used = outermost           *)
(*   tree         the patterns registered on the root, each with the index *)
(*                of the mount it leads to                                 *)
(*   mounts       the sub-routers created by Route, each with its own      *)
(*                middleware stack and its registered routes               *)
(***************************************************************************)
NewMux == [middlewares |-> <<>>, tree |-> <<>>, mounts |-> <<>>]

NewSubRouter == [middlewares |-> <<>>, routes |-> <<>>]

\* A variant of Use that puts the new layer in front of the stack.
Use_Prepend(m, layer) == [m EXCEPT !.middlewares = <<layer>> \o @]

\* Mux.Use
Use(m, layer) == [m EXCEPT !.middlewares = Append(@, layer)]

\* A variant of the entry that is written at info level.
LogEntry_Info(msg, name, method, path, experimental, status) ==
    [level |-> "info", msg |-> msg, name |-> name, method |-> method,
     path |-> path, experimental |-> experimental, status |-> status]

\* One debug entry of the server logger.
LogEntry(msg, name, method, path, experimental, status) ==
    [level |-> "debug", msg |-> msg, name |-> name, method |-> method,
     path |-> path, experimental |-> experimental, status |-> status]

\* A variant of the middleware test that mounts only on equal flags.
MiddlewareMounted_FlagsEqual(mw, toggle) ==
    mw.status /\ mw.experimental = toggle

\* The activation test of a loaded middleware (ramchi.go:247).
MiddlewareMounted(mw, toggle) ==
    mw.status /\ (mw.experimental = toggle \/ ~mw.experimental)

\* A variant of the route test that skips on every flag mismatch.
RouteSkipped_AnyMismatch(rt, toggle) ==
    ~rt.status \/ rt.experimental # toggle

\* The skip test of a route (ramchi.go:269).
RouteSkipped(rt, toggle) ==
    ~rt.status \/ (rt.experimental # toggle /\ rt.experimental)

\* A build in progress: the mux, the log written so far, and whether chi
\* panicked (the build then stops where it is).
BuildState(m, lg, panicked) == [m |-> m, log |-> lg, panicked |-> panicked]

\* A variant of the built-in step that mounts CORS whenever enableCORS is
\* set, whatever the origin list.
UseBuiltins_CorsOnEmptyList(cfg, b) ==
    LET b1 == IF cfg.enableRequestLogging
              THEN LET mw == NewLoggingMiddleware IN
                   BuildState(Use(b.m, mw.method),
                              Append(b.log, LogEntry("Registering middleware", mw.name, "",
                                                     <<>>, mw.experimental, mw.status)),
                              b.panicked)
              ELSE b
    IN  IF cfg.enableCORS
        THEN LET mw == NewCORSMiddleware(cfg.allowedOrigins) IN
             BuildState(Use(b1.m, mw.method),
                        Append(b1.log, LogEntry("Registering middleware", mw.name, "",
                                                <<>>, mw.experimental, mw.status)),
                        b1.panicked)
        ELSE b1

\* The built-in middleware toggled by the configuration (ramchi.go:222-244).
UseBuiltins(cfg, b) ==
    LET b1 == IF cfg.enableRequestLogging
              THEN LET mw == NewLoggingMiddleware IN
                   BuildState(Use(b.m, mw.method),
                              Append(b.log, LogEntry("Registering middleware", mw.name, "",
                                                     <<>>, mw.experimental, mw.status)),
                              b.panicked)
              ELSE b
    IN  IF cfg.enableCORS /\ Len(cfg.allowedOrigins) > 0
        THEN LET mw == NewCORSMiddleware(cfg.allowedOrigins) IN
             BuildState(Use(b1.m, mw.method),
                        Append(b1.log, LogEntry("Registering middleware", mw.name, "",
                                                <<>>, mw.experimental, mw.status)),
                        b1.panicked)
        ELSE b1

\* The loop over s.middlewares (ramchi.go:246-256), from index i on.
RECURSIVE UseLoaded(_, _, _, _)
UseLoaded(mws, i, toggle, b) ==
    IF i > Len(mws) THEN b
    ELSE LET mw == mws[i] IN
         IF MiddlewareMounted(mw, toggle)
         THEN UseLoaded(mws, i + 1, toggle,
                  BuildState(Use(b.m, Layer("global", "custom", mw.name, i, <<>>)),
                             Append(b.log, LogEntry("Registering middleware", mw.name, "",
                                                    <<>>, mw.experimental, mw.status)),
                             b.panicked))
         ELSE UseLoaded(mws, i + 1, toggle, b)

\* A variant of the router-local loop that uses nothing.
UseRouterLocal_Nothing(rmws, i, sub) == sub

\* The router-local middleware loop (ramchi.go:264-266): r.Use in list order.
RECURSIVE UseRouterLocal(_, _, _)
UseRouterLocal(rmws, i, sub) ==
    IF i > Len(rmws) THEN sub
    ELSE UseRouterLocal(rmws, i + 1,
             [sub EXCEPT !.middlewares = Append(@, Layer("router", "custom", rmws[i], i, <<>>))])

\* A variant of the wrapping loop that puts every middleware inside the
\* ones listed before it.
RECURSIVE WrapHandler_ListedFirstOutermost(_, _, _)
WrapHandler_ListedFirstOutermost(rtmws, i, finalHandler) ==
    IF i > Len(rtmws) THEN finalHandler
    ELSE WrapHandler_ListedFirstOutermost(rtmws, i + 1,
             [finalHandler EXCEPT
                 !.layers = Append(@, Layer("route", "custom", rtmws[i], i, <<>>))])

\* The route-local wrapping loop (ramchi.go:282-285): finalHandler starts
\* as the route handler and every middleware of the list, in list order,
\* wraps the result so far.  A handler is its layers, outermost first, and
\* the endpoint they end in.
RECURSIVE WrapHandler(_, _, _)
WrapHandler(rtmws, i, finalHandler) ==
    IF i > Len(rtmws) THEN finalHandler
    ELSE WrapHandler(rtmws, i + 1,
             [finalHandler EXCEPT
                 !.layers = <<Layer("route", "custom", rtmws[i], i, <<>>)>> \o @])

\* r.Method(method, pattern, handler) on a sub-router; src is the index of
\* the route descriptor.
Method(sub, method, pattern, finalHandler, src) ==
    [sub EXCEPT !.routes = Append(@, [method |-> method, pattern |-> pattern,
                                      handler |-> finalHandler, src |-> src])]

\* A variant that registers the route under the joined full path.
FullPath_Joined(rtr, rt) == Join(<< <<Slash>>, rtr.prefix, rt.path >>)

\* The pattern a route is registered under in its sub-router (ramchi.go:273).
FullPath(rtr, rt) == <<Slash>> \o rt.path

\* The pattern a router's sub-router is mounted at (ramchi.go:263).
MountPattern(rtr) == <<Slash>> \o rtr.prefix

\* A variant of the router test that skips nothing.
RouterSkipped_Never(rtr) == FALSE

\* The skip test of a router (ramchi.go:259).
RouterSkipped(rtr) == ~rtr.status

\* The loop over rtr.Routes() (ramchi.go:268-288), from index i on: sb is
\* the sub-router and the log so far.
RECURSIVE MountRoutes(_, _, _, _)
MountRoutes(rtr, i, toggle, sb) ==
    IF i > Len(rtr.routes) THEN sb
    ELSE LET rt == rtr.routes[i] IN
         IF RouteSkipped(rt, toggle) THEN MountRoutes(rtr, i + 1, toggle, sb)
         ELSE LET fullPath == FullPath(rtr, rt)
                  entry == LogEntry("Registering route", "", rt.method,
                                    Join(<< <<Slash>>, rtr.prefix, rt.path >>),
                                    rt.experimental, rt.status)
                  finalHandler == WrapHandler(rt.middleware, 1,
                                              [layers |-> <<>>, endpoint |-> rt.handler])
              IN  MountRoutes(rtr, i + 1, toggle,
                      [sub |-> Method(sb.sub, rt.method, fullPath, finalHandler, i),
                       log |-> Append(sb.log, entry)])

\* chi: whether a pattern is already registered on the root tree.
findPattern(tree, pattern) == \E k \in 1..Len(tree) : tree[k].pattern = pattern

\* chi Mux.Mount: refuses (panics) a pattern that is already mounted;
\* otherwise registers pattern, pattern/ and pattern/* (or pattern* when
\* the pattern ends in a slash), all leading to the sub-router.
MountConflict(m, pattern) ==
    \/ findPattern(m.tree, pattern \o <<Star>>)
    \/ findPattern(m.tree, pattern \o <<Slash, Star>>)

Mount(m, pattern, sub, rtrIdx) ==
    LET k == Len(m.mounts) + 1
        ep(p) == [pattern |-> p, mount |-> k]
        eps == IF ~EndsWithSlash(pattern)
               THEN << ep(pattern), ep(pattern \o <<Slash>>), ep(pattern \o <<Slash, Star>>) >>
               ELSE << ep(pattern \o <<Star>>) >>
    IN  [m EXCEPT !.tree = @ \o eps,
                  !.mounts = Append(@, [pattern |-> pattern, rtr |-> rtrIdx, sub |-> sub])]

\* m.Route("/"+prefix, fn) for one enabled router (ramchi.go:263-289): fn
\* fills a new sub-router, which is then mounted.
Route(rtr, rtrIdx, toggle, b) ==
    LET pattern == MountPattern(rtr)
        sb == MountRoutes(rtr, 1, toggle,
                  [sub |-> UseRouterLocal(rtr.middleware, 1, NewSubRouter), log |-> b.log])
    IN  IF MountConflict(b.m, pattern)
        THEN BuildState(b.m, sb.log, TRUE)
        ELSE BuildState(Mount(b.m, pattern, sb.sub, rtrIdx), sb.log, FALSE)

\* The loop over s.routers (ramchi.go:258-290), from index i on.
RECURSIVE MountRouters(_, _, _, _)
MountRouters(rtrs, i, toggle, b) ==
    IF i > Len(rtrs) \/ b.panicked THEN b
    ELSE IF RouterSkipped(rtrs[i]) THEN MountRouters(rtrs, i + 1, toggle, b)
    ELSE MountRouters(rtrs, i + 1, toggle, Route(rtrs[i], i, toggle, b))

\* A variant of initMux that mounts the built-ins after the loaded
\* middleware, as an earlier Start did through LoadMiddleware.
initMux_BuiltinsLast(cfg, mws, rtrs, lg) ==
    MountRouters(rtrs, 1, cfg.experimental,
        UseBuiltins(cfg,
            UseLoaded(mws, 1, cfg.experimental, BuildState(NewMux, lg, FALSE))))

\* Server.initMux on a fresh mux.
initMux(cfg, mws, rtrs, lg) ==
    MountRouters(rtrs, 1, cfg.experimental,
        UseLoaded(mws, 1, cfg.experimental,
            UseBuiltins(cfg, BuildState(NewMux, lg, FALSE))))

(***************************************************************************)
(* Serving one request.  An exchange is the request together with what the *)
(* handlers have done to the response so far: the response headers (a set  *)
(* of name/value pairs), the status and body once written, the logger in   *)
(* the request context, the route path left for the sub-router, rtr, the   *)
(* index of the router whose sub-router got the request (0 for none), and  *)
(* trace, the layers entered in order.                                     *)
(***************************************************************************)
NoLogger == "nil"
ServerLogger == "s.logger"

NewExchange(req) ==
    [req |-> req, routePath |-> req.path, rtr |-> 0, trace |-> <<>>, header |-> {},
     status |-> 0, body |-> "", logger |-> NoLogger, done |-> FALSE]

NoExchange == NewExchange([method |-> "", path |-> <<>>, origin |-> ""])

\* http.Header.Set
HeaderSet(header, name, value) == {h \in header : h[1] # name} \cup {<<name, value>>}

HeaderNames(header) == {h[1] : h \in header}

Enter(ex, level, name, src) ==
    [ex EXCEPT !.trace = Append(@, [level |-> level, name |-> name, src |-> src])]

Respond(ex, status, body) == [ex EXCEPT !.status = status, !.body = body, !.done = TRUE]

\* A variant of the logging handler that passes the request on untouched.
ServeLogging_NoInject(layer, ex) == ex

\* The handler NewLoggingMiddleware builds (middleware/public.go:40-43).
ServeLogging(layer, ex) == [ex EXCEPT !.logger = ServerLogger]

\* A variant of the origin test that allows every origin.
OriginAllowed_Always(allowedOrigins, origin) == TRUE

\* A variant of the origin test without the ["*"] case.
OriginAllowed_NoWildcard(allowedOrigins, origin) ==
    \E k \in 1..Len(allowedOrigins) : allowedOrigins[k] = origin

\* The origin test of the CORS handler (middleware/public.go:52-64).
OriginAllowed(allowedOrigins, origin) ==
    IF Len(allowedOrigins) = 1 /\ allowedOrigins[1] = "*"
    THEN TRUE
    ELSE \E k \in 1..Len(allowedOrigins) : allowedOrigins[k] = origin

\* A variant of the CORS handler that answers a preflight itself only for
\* an allowed origin.
ServeCORS_PreflightIfAllowed(layer, ex) ==
    LET origin == ex.req.origin
        allowed == \/ (Len(layer.origins) = 1 /\ layer.origins[1] = "*")
                   \/ \E k \in 1..Len(layer.origins) : layer.origins[k] = origin
        names == <<"Access-Control-Allow-Origin", "Vary", "Access-Control-Allow-Methods",
                   "Access-Control-Allow-Headers", "Access-Control-Allow-Credentials">>
        values == <<origin, "Origin", "GET, POST, PUT, DELETE, OPTIONS",
                    "Accept, Authorization, Content-Type, X-CSRF-Token", "true">>
        set == {h \in ex.header : \A n \in 1..5 : h[1] # names[n]}
                  \cup {<<names[n], values[n]>> : n \in 1..5}
    IN  IF ~allowed THEN ex
        ELSE IF ex.req.method = "OPTIONS"
        THEN [ex EXCEPT !.header = set, !.status = 200, !.body = "", !.done = TRUE]
        ELSE [ex EXCEPT !.header = set]

\* A variant of the CORS handler that answers 403 itself when the origin
\* is not allowed.
ServeCORS_RejectDisallowed(layer, ex) ==
    LET origin == ex.req.origin
        allowed == OriginAllowed(layer.origins, origin)
        h1 == HeaderSet(ex.header, "Access-Control-Allow-Origin", origin)
        h2 == HeaderSet(h1, "Vary", "Origin")
        h3 == HeaderSet(h2, "Access-Control-Allow-Methods", "GET, POST, PUT, DELETE, OPTIONS")
        h4 == HeaderSet(h3, "Access-Control-Allow-Headers",
                        "Accept, Authorization, Content-Type, X-CSRF-Token")
        h5 == HeaderSet(h4, "Access-Control-Allow-Credentials", "true")
        ex1 == IF allowed THEN [ex EXCEPT !.header = h5] ELSE ex
    IN  IF ex.req.method = "OPTIONS" THEN Respond(ex1, 200, "")
        ELSE IF ~allowed THEN Respond(ex1, 403, "")
        ELSE ex1

\* The handler NewCORSMiddleware builds (middleware/public.go:51-81).
ServeCORS(layer, ex) ==
    LET origin == ex.req.origin
        allowed == OriginAllowed(layer.origins, origin)
        h1 == HeaderSet(ex.header, "Access-Control-Allow-Origin", origin)
        h2 == HeaderSet(h1, "Vary", "Origin")
        h3 == HeaderSet(h2, "Access-Control-Allow-Methods", "GET, POST, PUT, DELETE, OPTIONS")
        h4 == HeaderSet(h3, "Access-Control-Allow-Headers",
                        "Accept, Authorization, Content-Type, X-CSRF-Token")
        h5 == HeaderSet(h4, "Access-Control-Allow-Credentials", "true")
        ex1 == IF allowed THEN [ex EXCEPT !.header = h5] ELSE ex
    IN  IF ex.req.method = "OPTIONS" THEN Respond(ex1, 200, "") ELSE ex1

\* One layer of a chain: the layer is entered, does its work and, unless
\* it has answered the request itself, leaves the rest to the next handler.
ServeLayer(layer, ex) ==
    LET ex1 == Enter(ex, layer.level, layer.name, layer.src) IN
    CASE layer.kind = "logger" -> ServeLogging(layer, ex1)
      [] layer.kind = "cors" -> ServeCORS(layer, ex1)
      [] OTHER -> ex1

\* chi chain(): the layers in order, the first outermost, until one answers.
RECURSIVE ServeChain(_, _, _)
ServeChain(layers, i, ex) ==
    IF i > Len(layers) \/ ex.done THEN ex
    ELSE ServeChain(layers, i + 1, ServeLayer(layers[i], ex))

\* The route handlers of the test suite (unnamed/part_004:236-267).
PingBody == "{\"success\":\"ping\"}"
ErrorBody == "{\"details\":\"test error pass-through\",\"error\":\"Example error has occurred\"}\n"

ServeEndpoint(name, src, ex) ==
    LET ex1 == Enter(ex, "handler", name, src)
        ex2 == [ex1 EXCEPT !.header = HeaderSet(@, "Content-Type", "application/json")]
    IN  IF name = "pingAll" THEN Respond(ex2, 201, PingBody)
        ELSE Respond(ex2, 418, ErrorBody)

\* http.NotFound and chi's 405 answer.
NotFound(ex) ==
    Respond([ex EXCEPT !.header = HeaderSet(HeaderSet(@, "Content-Type",
                                   "text/plain; charset=utf-8"),
                                   "X-Content-Type-Options", "nosniff")],
            404, "404 page not found\n")

MethodNotAllowed(ex, allowedMethods) ==
    Respond([ex EXCEPT !.header = @ \cup {<<"Allow", a>> : a \in allowedMethods}], 405, "")

\* chi's radix tree on the patterns initMux registers: a pattern ending in
\* the catch-all matches every path that extends its static part, any other
\* pattern matches only itself; static edges are tried before the
\* catch-all, so the longest static part wins.
IsCatchAll(pattern) == Len(pattern) > 0 /\ pattern[Len(pattern)] = Star

StaticPart(pattern) ==
    IF IsCatchAll(pattern) THEN SubSeq(pattern, 1, Len(pattern) - 1) ELSE pattern

PatternMatches(pattern, path) ==
    IF IsCatchAll(pattern) THEN HasPrefix(path, StaticPart(pattern)) ELSE pattern = path

PatternRank(pattern) ==
    2 * Len(StaticPart(pattern)) + (IF IsCatchAll(pattern) THEN 0 ELSE 1)

\* The root endpoints a path leads to (at most one rank is maximal).
findRoute(tree, path) ==
    {k \in 1..Len(tree) :
        /\ PatternMatches(tree[k].pattern, path)
        /\ \A j \in 1..Len(tree) :
              PatternMatches(tree[j].pattern, path)
                  => PatternRank(tree[j].pattern) <= PatternRank(tree[k].pattern)}

\* chi Mux.nextRoutePath: "/" plus what the catch-all matched, "/" alone
\* when the mount was reached through a static pattern.
nextRoutePath(pattern, path) ==
    IF IsCatchAll(pattern)
    THEN <<Slash>> \o SubSeq(path, Len(StaticPart(pattern)) + 1, Len(path))
    ELSE <<Slash>>

\* A sub-router serving the exchange: without routes it has no handler and
\* answers 404 at once; otherwise its middleware stack runs and then the
\* route registered last for the method and the route path.
ServeSubRouter(sub, ex) ==
    IF sub.routes = <<>> THEN NotFound(ex)
    ELSE LET ex1 == ServeChain(sub.middlewares, 1, ex)
             same == {k \in 1..Len(sub.routes) : sub.routes[k].pattern = ex.routePath}
             hit == {k \in same : sub.routes[k].method = ex.req.method}
         IN  IF ex1.done THEN ex1
             ELSE IF hit # {}
             THEN LET k == CHOOSE x \in hit : \A y \in hit : y <= x
                      h == sub.routes[k].handler
                      ex2 == ServeChain(h.layers, 1, ex1)
                  IN  IF ex2.done THEN ex2
                      ELSE ServeEndpoint(h.endpoint, sub.routes[k].src, ex2)
             ELSE IF same # {}
             THEN MethodNotAllowed(ex1, {sub.routes[k].method : k \in same})
             ELSE NotFound(ex1)

\* The root mux serving a request (chi Mux.ServeHTTP on the handler that
\* Server.handler returned).
ServeMux(m, req) ==
    LET ex == NewExchange(req) IN
    IF m.tree = <<>> THEN NotFound(ex)
    ELSE LET ex1 == ServeChain(m.middlewares, 1, ex)
             found == findRoute(m.tree, req.path)
         IN  IF ex1.done THEN ex1
             ELSE IF found = {} THEN NotFound(ex1)
             ELSE LET e == m.tree[CHOOSE k \in found : TRUE]
                      mnt == m.mounts[e.mount]
                  IN  ServeSubRouter(mnt.sub,
                          [ex1 EXCEPT !.routePath = nextRoutePath(e.pattern, req.path),
                                      !.rtr = mnt.rtr])

(***************************************************************************)
(* The state machine.                                                      *)
(***************************************************************************)
\* The CORS settings of ramchi.config.json that are explored: the default
\* (off, ["*"]), the test suite's, the permissive one, a mixed list, and
\* CORS enabled without any origin.
CorsSettings ==
    { [enableCORS |-> FALSE, allowedOrigins |-> <<"*">>],
      [enableCORS |-> TRUE, allowedOrigins |-> <<"http://example.com">>],
      [enableCORS |-> TRUE, allowedOrigins |-> <<"*">>],
      [enableCORS |-> TRUE, allowedOrigins |-> <<"*", "http://example.com">>],
      [enableCORS |-> TRUE, allowedOrigins |-> <<>>] }

Configs ==
    { [experimental |-> e, enableRequestLogging |-> l,
       enableCORS |-> c.enableCORS, allowedOrigins |-> c.allowedOrigins] :
         e \in BOOLEAN, l \in BOOLEAN, c \in CorsSettings }

\* The zero value of the fields Start fills in, and of what exists only
\* while Start runs.
NoInstance == [handler |-> "nil", listener |-> "none", inShutdown |-> FALSE,
               listens |-> 0, err |-> "nil", shutdownErr |-> "none"]

NoConn == [state |-> "none", early |-> FALSE]

\* No call of GenerateOTP has been made.
NoOTP == [pc |-> "none", passed |-> <<>>, length |-> 0, charset |-> <<>>, charsetLen |-> 0,
          otp |-> <<>>, i |-> 0, redrawn |-> FALSE, partial |-> FALSE,
          result |-> <<>>, err |-> "nil"]

NotStarted ==
    /\ snap = [middlewares |-> <<>>, routers |-> <<>>, builds |-> 0,
               begun |-> [middlewares |-> <<>>, routers |-> <<>>]]
    /\ instance = NoInstance
    /\ sigint = [notify |-> FALSE, buf |-> 0, signalled |-> FALSE]
    /\ gopc = "none"
    /\ ctx = "none"
    /\ idle = [made |-> FALSE, closes |-> 0]
    /\ conns = [c \in 1..MaxConns |-> NoConn]

\* New(): the configuration is loaded, nothing is registered.
Init ==
    /\ config \in Configs
    /\ middlewares = <<>>
    /\ routers = <<>>
    /\ mux = NewMux
    /\ log = <<>>
    /\ exchange = NoExchange
    /\ pc = "new"
    /\ NotStarted
    /\ otp = NoOTP

\* A variant of LoadRouter that replaces the list by its argument.
LoadRouter_Replace(rs) ==
    /\ pc = "new"
    /\ Len(rs) <= MaxRouters
    /\ routers' = rs
    /\ UNCHANGED <<otp, config, middlewares, mux, log, exchange, pc>>
    /\ UNCHANGED life

\* Server.LoadRouter
LoadRouter(rs) ==
    /\ pc = "new"
    /\ Len(routers) + Len(rs) <= MaxRouters
    /\ routers' = routers \o rs
    /\ UNCHANGED <<otp, config, middlewares, mux, log, exchange, pc>>
    /\ UNCHANGED life

\* Server.LoadMiddleware
LoadMiddleware(ms) ==
    /\ pc = "new"
    /\ Len(middlewares) + Len(ms) <= MaxMiddlewares
    /\ middlewares' = middlewares \o ms
    /\ UNCHANGED <<otp, config, routers, mux, log, exchange, pc>>
    /\ UNCHANGED life

\* Server.handler: a fresh mux, initialised by initMux.
handler ==
    /\ pc = "new"
    /\ LET b == initMux(config, middlewares, routers, log) IN
          /\ mux' = b.m
          /\ log' = b.log
          /\ pc' = IF b.panicked THEN "panic" ELSE "built"
    /\ UNCHANGED <<otp, config, middlewares, routers, exchange>>
    /\ UNCHANGED life

\* One request served by the built handler.  Requests do not interact (the
\* mux is only read), so a behaviour follows a single observed request.
ServeHTTP(req) ==
    /\ pc = "built"
    /\ exchange = NoExchange
    /\ exchange' = ServeMux(mux, req)
    /\ UNCHANGED <<otp, config, middlewares, routers, mux, log, pc>>
    /\ UNCHANGED life

Batches(catalog, n) == UNION {[1..k -> catalog] : k \in 1..n}

Next ==
    \/ \E rs \in Batches(RouterCatalog, MaxRouters) : LoadRouter(rs)
    \/ \E ms \in Batches(MiddlewareCatalog, MaxMiddlewares) : LoadMiddleware(ms)
    \/ handler
    \/ \E req \in Requests : ServeHTTP(req)

Spec == Init /\ [][Next]_vars

(***************************************************************************)
(* Properties.                                                             *)
(***************************************************************************)
Built == pc = "built"

Served == Built /\ exchange # NoExchange

\* The activation predicate of section 3 of the specification.
Activated(unit) ==
    unit.status = TRUE /\ (unit.experimental = FALSE \/ unit.experimental = config.experimental)

\* Route ti of router ri has been registered: a mount made for router ri
\* holds a registration made for route ti, under the route's method.
RouteRegistered(ri, ti) ==
    \E k \in 1..Len(mux.mounts) :
        /\ mux.mounts[k].rtr = ri
        /\ \E j \in 1..Len(mux.mounts[k].sub.routes) :
              /\ mux.mounts[k].sub.routes[j].src = ti
              /\ mux.mounts[k].sub.routes[j].method = routers[ri].routes[ti].method
              /\ mux.mounts[k].sub.routes[j].handler.endpoint = routers[ri].routes[ti].handler

\* C1: in a built dispatch graph, a route of an enabled router is
\* registered if and only if the route is enabled and is either not
\* experimental or has the experimental flag of the global toggle.
C1_RouteActivation ==
    Built =>
        \A ri \in 1..Len(routers) :
            routers[ri].status =>
                \A ti \in 1..Len(routers[ri].routes) :
                    RouteRegistered(ri, ti) <=> Activated(routers[ri].routes[ti])

\* C1 witness: a built graph with the toggle off in which an enabled
\* router has an enabled experimental route left out and an enabled
\* non-experimental route registered.
C1_Witness ==
    /\ Built
    /\ ~config.experimental
    /\ \E ri \in 1..Len(routers) :
          /\ routers[ri].status
          /\ \E ti, tj \in 1..Len(routers[ri].routes) :
                /\ routers[ri].routes[ti].status
                /\ routers[ri].routes[ti].experimental
                /\ ~RouteRegistered(ri, ti)
                /\ routers[ri].routes[tj].status
                /\ ~routers[ri].routes[tj].experimental
                /\ RouteRegistered(ri, tj)

\* C2: in a built dispatch graph, a disabled router has no sub-router: no
\* pattern of the root tree leads to it, so none of its routes and none of
\* its local middleware is mounted, and no request is handed to it.
C2_DisabledRouterAbsent ==
    Built =>
        \A ri \in 1..Len(routers) :
            ~routers[ri].status =>
                /\ \A k \in 1..Len(mux.mounts) : mux.mounts[k].rtr # ri
                /\ \A ti \in 1..Len(routers[ri].routes) : ~RouteRegistered(ri, ti)
                /\ exchange.rtr # ri

\* C2 witness: a disabled router holding an enabled, non-experimental
\* route sits next to a mounted router, and a GET for the disabled
\* router's route at its joined path is answered 404.
C2_Witness ==
    /\ Served
    /\ Len(mux.mounts) > 0
    /\ \E ri \in 1..Len(routers) :
          /\ ~routers[ri].status
          /\ \E ti \in 1..Len(routers[ri].routes) :
                /\ Activated(routers[ri].routes[ti])
                /\ exchange.req.method = routers[ri].routes[ti].method
                /\ exchange.req.path =
                       Join(<< <<Slash>>, routers[ri].prefix, routers[ri].routes[ti].path >>)
                /\ exchange.status = 404

\* The layers of the root stack that come from loaded middleware.
LoadedLayers == SelectSeq(mux.middlewares, LAMBDA l : l.kind = "custom")

\* C3: in a built dispatch graph, a loaded middleware is on the root stack
\* if and only if it is enabled and is either not experimental or has the
\* experimental flag of the global toggle; the mounted ones are there once
\* each, in list order, and nothing else is there besides the built-ins.
C3_MiddlewareActivation ==
    Built =>
        /\ \A i \in 1..Len(middlewares) :
              (\E j \in 1..Len(LoadedLayers) : LoadedLayers[j].src = i)
                  <=> Activated(middlewares[i])
        /\ \A j \in 1..Len(LoadedLayers) :
              /\ LoadedLayers[j].src \in 1..Len(middlewares)
              /\ LoadedLayers[j].name = middlewares[LoadedLayers[j].src].name
        /\ \A j, k \in 1..Len(LoadedLayers) :
              j < k => LoadedLayers[j].src < LoadedLayers[k].src

\* C3 witness: a built graph whose middleware list holds an experimental
\* middleware that is mounted and, after it, a middleware that is skipped.
C3_Witness ==
    /\ Built
    /\ \E i, j \in 1..Len(middlewares) :
          /\ i < j
          /\ middlewares[i].experimental
          /\ \E k \in 1..Len(LoadedLayers) : LoadedLayers[k].src = i
          /\ ~(\E k \in 1..Len(LoadedLayers) : LoadedLayers[k].src = j)

\* The served request went all the way to a route handler.
HandlerReached ==
    /\ Served
    /\ Len(exchange.trace) > 0
    /\ exchange.trace[Len(exchange.trace)].level = "handler"

\* The positions of the trace at which the layer of loaded middleware i
\* was entered.
GlobalPositions(i) ==
    {p \in 1..Len(exchange.trace) :
        /\ exchange.trace[p].level = "global"
        /\ exchange.trace[p].src = i
        /\ exchange.trace[p].name = middlewares[i].name}

\* C4: a request that reaches a route handler has entered every activated
\* loaded middleware exactly once, in the order of the middleware list,
\* and all of them before the handler; no request enters two loaded
\* middleware against the list order.
C4_GlobalOrder ==
    Served =>
        /\ \A p, q \in 1..Len(exchange.trace) :
              (/\ p < q
               /\ exchange.trace[p].level = "global" /\ exchange.trace[p].src > 0
               /\ exchange.trace[q].level = "global" /\ exchange.trace[q].src > 0)
                  => exchange.trace[p].src < exchange.trace[q].src
        /\ HandlerReached =>
              \A i \in 1..Len(middlewares) :
                  Activated(middlewares[i]) =>
                      /\ Cardinality(GlobalPositions(i)) = 1
                      /\ \A p \in GlobalPositions(i) : p < Len(exchange.trace)

\* C4 witness: with [A, B] loaded and both activated, a request has
\* entered A, then B, then a route handler.
C4_Witness ==
    /\ HandlerReached
    /\ Len(middlewares) = 2
    /\ middlewares[1].name = "A" /\ middlewares[2].name = "B"
    /\ \E p \in GlobalPositions(1) : \E q \in GlobalPositions(2) : p < q

LevelRank(level) ==
    CASE level = "global" -> 1
      [] level = "router" -> 2
      [] level = "route" -> 3
      [] level = "handler" -> 4

LevelTrace(level) == SelectSeq(exchange.trace, LAMBDA e : e.level = level)

\* The number of middleware the root stack must hold: the built-ins the
\* configuration turns on and the activated loaded ones.
ExpectedGlobal ==
    (IF config.enableRequestLogging THEN 1 ELSE 0)
      + (IF config.enableCORS /\ Len(config.allowedOrigins) > 0 THEN 1 ELSE 0)
      + Cardinality({i \in 1..Len(middlewares) : Activated(middlewares[i])})

\* C5: the layers a request enters are ordered by level: global
\* middleware, then router-local middleware, then route-local middleware,
\* then the handler; a request that reaches the handler of a route has
\* entered every mounted global middleware, every local middleware of the
\* route's router and every local middleware of the route, once each.
C5_LevelOrder ==
    Served =>
        /\ \A p, q \in 1..Len(exchange.trace) :
              p < q => LevelRank(exchange.trace[p].level) <= LevelRank(exchange.trace[q].level)
        /\ HandlerReached =>
              LET rtr == routers[exchange.rtr]
                  rt == rtr.routes[exchange.trace[Len(exchange.trace)].src]
              IN  /\ Len(LevelTrace("handler")) = 1
                  /\ Len(LevelTrace("global")) = ExpectedGlobal
                  /\ Len(LevelTrace("router")) = Len(rtr.middleware)
                  /\ {e.src : e \in {LevelTrace("router")[p] : p \in 1..Len(rtr.middleware)}}
                        = 1..Len(rtr.middleware)
                  /\ \A p \in 1..Len(LevelTrace("router")) :
                        LevelTrace("router")[p].name = rtr.middleware[LevelTrace("router")[p].src]
                  /\ Len(LevelTrace("route")) = Len(rt.middleware)
                  /\ {e.src : e \in {LevelTrace("route")[p] : p \in 1..Len(rt.middleware)}}
                        = 1..Len(rt.middleware)
                  /\ \A p \in 1..Len(LevelTrace("route")) :
                        LevelTrace("route")[p].name = rt.middleware[LevelTrace("route")[p].src]

\* C5 witness: a request has reached a handler through a loaded global
\* middleware, a router-local middleware and a route-local middleware.
C5_Witness ==
    /\ HandlerReached
    /\ \E p \in 1..Len(exchange.trace) :
          exchange.trace[p].level = "global" /\ exchange.trace[p].src > 0
    /\ Len(LevelTrace("router")) > 0
    /\ Len(LevelTrace("route")) > 0

\* The normalized full path of a route: path.Join("/", prefix, path).
JoinedPath(ri, ti) == Join(<< <<Slash>>, routers[ri].prefix, routers[ri].routes[ti].path >>)

\* The served request was answered by the handler of route ti of router ri.
HandledBy(ri, ti) ==
    /\ HandlerReached
    /\ exchange.rtr = ri
    /\ exchange.trace[Len(exchange.trace)].src = ti
    /\ exchange.trace[Len(exchange.trace)].name = routers[ri].routes[ti].handler

\* C6: every registered route is dispatched at its normalized full path:
\* a request with the route's method for path.Join("/", prefix, path) is
\* answered by the route's handler (when no other registered route has the
\* same method and the same joined path).
C6_JoinedPathDispatch ==
    Served =>
        \A ri \in 1..Len(routers) : \A ti \in 1..Len(routers[ri].routes) :
            (/\ RouteRegistered(ri, ti)
             /\ exchange.req.method = routers[ri].routes[ti].method
             /\ exchange.req.path = JoinedPath(ri, ti)
             /\ \A rj \in 1..Len(routers) : \A tj \in 1..Len(routers[rj].routes) :
                   (/\ RouteRegistered(rj, tj)
                    /\ routers[rj].routes[tj].method = routers[ri].routes[ti].method
                    /\ JoinedPath(rj, tj) = JoinedPath(ri, ti))
                       => (rj = ri /\ tj = ti))
                => HandledBy(ri, ti)

\* C7: with an enabled router of prefix "test" holding an enabled,
\* non-experimental GET route of path "ping" whose handler writes 201 and
\* {"success":"ping"} (and no later route of the router registered for GET
\* "ping" as well), GET /test/ping returns exactly that status and body.
C7_PingEndToEnd ==
    (/\ Served
     /\ exchange.req.method = "GET"
     /\ exchange.req.path = <<Slash, "test", Slash, "ping">>
     /\ \E ri \in 1..Len(routers) :
           /\ routers[ri].status
           /\ routers[ri].prefix = <<"test">>
           /\ \E ti \in 1..Len(routers[ri].routes) :
                 /\ routers[ri].routes[ti].method = "GET"
                 /\ routers[ri].routes[ti].path = <<"ping">>
                 /\ routers[ri].routes[ti].status
                 /\ ~routers[ri].routes[ti].experimental
                 /\ routers[ri].routes[ti].handler = "pingAll"
                 /\ \A tj \in (ti + 1)..Len(routers[ri].routes) :
                       Activated(routers[ri].routes[tj]) =>
                           ~(/\ routers[ri].routes[tj].method = "GET"
                             /\ routers[ri].routes[tj].path = <<"ping">>))
        => (exchange.status = 201 /\ exchange.body = PingBody)

\* C7 witness: the test suite's server (one router, prefix "test") has
\* answered GET /test/ping with 201 and {"success":"ping"}.
C7_Witness ==
    /\ Served
    /\ Len(routers) = 1
    /\ routers[1].prefix = <<"test">>
    /\ exchange.req.method = "GET"
    /\ exchange.req.path = <<Slash, "test", Slash, "ping">>
    /\ exchange.status = 201
    /\ exchange.body = PingBody

\* The served request has entered the built-in CORS middleware.
CorsEntered ==
    /\ Served
    /\ \E p \in 1..Len(exchange.trace) :
          exchange.trace[p].name = "ramchi_cors" /\ exchange.trace[p].src = 0

AllowHeaders ==
    { "Access-Control-Allow-Origin", "Access-Control-Allow-Methods",
      "Access-Control-Allow-Headers", "Access-Control-Allow-Credentials" }

HeaderValues(name) == {h[2] : h \in {g \in exchange.header : g[1] = name}}

\* C8: with allowedOrigins = ["http://example.com"], an OPTIONS request
\* handled by the CORS middleware gets, for Origin http://example.com,
\* status 200 with Access-Control-Allow-Origin http://example.com and a
\* non-empty Access-Control-Allow-Methods, and for any other Origin no
\* Access-Control-Allow-* header at all.
C8_CorsOriginCheck ==
    (/\ CorsEntered
     /\ config.allowedOrigins = <<"http://example.com">>
     /\ exchange.req.method = "OPTIONS")
        => IF exchange.req.origin = "http://example.com"
           THEN /\ exchange.status = 200
                /\ HeaderValues("Access-Control-Allow-Origin") = {"http://example.com"}
                /\ HeaderValues("Access-Control-Allow-Methods") # {}
                /\ "" \notin HeaderValues("Access-Control-Allow-Methods")
           ELSE HeaderNames(exchange.header) \cap AllowHeaders = {}

\* C8 witness: the preflight of the test suite, OPTIONS /test/ping with
\* Origin http://example.com, was answered 200 with the origin echoed.
C8_Witness ==
    /\ CorsEntered
    /\ config.allowedOrigins = <<"http://example.com">>
    /\ exchange.req.method = "OPTIONS"
    /\ exchange.req.origin = "http://example.com"
    /\ exchange.status = 200
    /\ <<"Access-Control-Allow-Origin", "http://example.com">> \in exchange.header

\* C9: an OPTIONS request that enters the CORS middleware is answered by
\* it with status 200 and an empty body, and nothing after it runs: the
\* CORS layer is the last one entered and no router gets the request.
C9_PreflightShortCircuit ==
    (CorsEntered /\ exchange.req.method = "OPTIONS")
        => /\ exchange.status = 200
           /\ exchange.body = ""
           /\ exchange.trace[Len(exchange.trace)].name = "ramchi_cors"
           /\ exchange.rtr = 0

\* C9 witness: an OPTIONS request from an origin that is not allowed, for
\* a path no route is registered at, was answered 200 by the CORS
\* middleware although a loaded middleware is mounted behind it.
C9_Witness ==
    /\ CorsEntered
    /\ exchange.req.method = "OPTIONS"
    /\ exchange.req.path = <<Slash, "example", Slash, "demo">>
    /\ HeaderNames(exchange.header) \cap AllowHeaders = {}
    /\ Len(LoadedLayers) > 0
    /\ exchange.status = 200

\* C10 as claimed: whenever the list contains "*", alone or among other
\* origins, every request that enters the CORS middleware gets the
\* Access-Control-Allow-* headers.
C10_StarAnywhere ==
    (CorsEntered /\ \E k \in 1..Len(config.allowedOrigins) : config.allowedOrigins[k] = "*")
        => AllowHeaders \subseteq HeaderNames(exchange.header)

\* C10: "*" means any origin only as the sole entry: with allowedOrigins =
\* ["*"] every request that enters the CORS middleware gets the
\* Access-Control-Allow-* headers, with the request's Origin as the allowed
\* origin; with any other list the headers are set exactly when the
\* request's Origin equals an entry of the list.
C10_SoleStar ==
    CorsEntered =>
        IF config.allowedOrigins = <<"*">>
        THEN /\ AllowHeaders \subseteq HeaderNames(exchange.header)
             /\ HeaderValues("Access-Control-Allow-Origin") = {exchange.req.origin}
        ELSE (HeaderNames(exchange.header) \cap AllowHeaders # {})
                <=> (\E k \in 1..Len(config.allowedOrigins) :
                        config.allowedOrigins[k] = exchange.req.origin)

\* C10 witness: with allowedOrigins = ["*"], a request from
\* http://evil.com got the Access-Control-Allow-* headers.
C10_Witness ==
    /\ CorsEntered
    /\ config.allowedOrigins = <<"*">>
    /\ exchange.req.origin = "http://evil.com"
    /\ <<"Access-Control-Allow-Origin", "http://evil.com">> \in exchange.header

(***************************************************************************)
(* Server.Start (ramchi.go:146-197).  The main flow builds the handler,    *)
(* spawns the shutdown goroutine and serves; the goroutine registers for   *)
(* os.Interrupt, waits for it, shuts the http.Server down within the       *)
(* shutdown timeout and closes s.idle; the main flow returns once s.idle   *)
(* is closed.  pc is the position of the main flow:                        *)
(*   new -> initMux -> routers -> built -> listen -> (serveTLS ->) serve   *)
(*       -> waitIdle -> returned,   or panic / exited / killed             *)
(* The server has no lock: LoadRouter and LoadMiddleware called from       *)
(* another goroutine interleave with the statements of Start.              *)
(***************************************************************************)
TLSSettings ==
    { [enableTLS |-> FALSE, tlsCertFile |-> "", tlsKeyFile |-> ""],
      [enableTLS |-> TRUE, tlsCertFile |-> "cert.pem", tlsKeyFile |-> "key.pem"],
      [enableTLS |-> TRUE, tlsCertFile |-> "", tlsKeyFile |-> "key.pem"],
      [enableTLS |-> TRUE, tlsCertFile |-> "cert.pem", tlsKeyFile |-> ""] }

StartConfigs ==
    { [experimental |-> FALSE, enableRequestLogging |-> TRUE,
       enableCORS |-> FALSE, allowedOrigins |-> <<>>,
       enableTLS |-> t.enableTLS, tlsCertFile |-> t.tlsCertFile,
       tlsKeyFile |-> t.tlsKeyFile] : t \in TLSSettings }

StartRouterCatalog == { Rtr(<<"test">>, TestRoutes, TRUE, <<"rm1", "rm2">>) }

StartMiddlewareCatalog == { Mw("A", TRUE, FALSE) }

\* One entry written through s.logger outside initMux.
LifeEntry(level, msg) == [level |-> level, msg |-> msg]

\* The process is running: it has not panicked, not exited through
\* logger.Fatal, and not been ended by a signal nobody is registered for.
Alive == pc \notin {"panic", "exited", "killed"}

\* Start is running: entered and neither returned nor ended.
Starting == Alive /\ pc \notin {"new", "returned"}

ActiveConns == {c \in 1..MaxConns : conns[c].state = "active"}

\* The end of the process takes its open connections with it.
CutAll(cs) ==
    [c \in 1..MaxConns |->
        IF cs[c].state = "active" THEN [cs[c] EXCEPT !.state = "cut"] ELSE cs[c]]

StartInit ==
    /\ config \in StartConfigs
    /\ middlewares = <<>>
    /\ routers = <<>>
    /\ mux = NewMux
    /\ log = <<>>
    /\ exchange = NoExchange
    /\ pc = "new"
    /\ NotStarted
    /\ otp = NoOTP

\* A variant of LoadRouter that also mounts the routers on the mux of a
\* server that has one.
GoLoadRouter_Mounting(rs) ==
    /\ Alive
    /\ Len(routers) + Len(rs) <= MaxRouters
    /\ routers' = routers \o rs
    /\ IF instance.handler = "mux"
       THEN LET b == MountRouters(rs, 1, config.experimental, BuildState(mux, log, FALSE)) IN
               mux' = b.m /\ log' = b.log
       ELSE UNCHANGED <<mux, log>>
    /\ UNCHANGED <<otp, config, middlewares, exchange, pc>>
    /\ UNCHANGED life

\* Server.LoadRouter, called at any time the process runs.
GoLoadRouter(rs) ==
    /\ Alive
    /\ Len(routers) + Len(rs) <= MaxRouters
    /\ routers' = routers \o rs
    /\ UNCHANGED <<otp, config, middlewares, mux, log, exchange, pc>>
    /\ UNCHANGED life

\* Server.LoadMiddleware, called at any time the process runs.
GoLoadMiddleware(ms) ==
    /\ Alive
    /\ Len(middlewares) + Len(ms) <= MaxMiddlewares
    /\ middlewares' = middlewares \o ms
    /\ UNCHANGED <<otp, config, routers, mux, log, exchange, pc>>
    /\ UNCHANGED life

\* Start calls s.handler(): chi.NewMux and the first part of initMux, the
\* built-in middleware (ramchi.go:149, 207-208, 222-244).
StartHandler ==
    /\ pc = "new"
    /\ LET b == UseBuiltins(config, BuildState(NewMux, log, FALSE)) IN
          /\ mux' = b.m
          /\ log' = b.log
    /\ snap' = [snap EXCEPT !.builds = @ + 1,
                            !.begun = [middlewares |-> middlewares, routers |-> routers]]
    /\ pc' = "initMux"
    /\ UNCHANGED <<otp, config, middlewares, routers, exchange>>
    /\ UNCHANGED <<instance, sigint, gopc, ctx, idle, conns>>

\* A variant of the loop that reads the list but mounts nothing yet.
RangeMiddlewares_Deferred ==
    /\ pc = "initMux"
    /\ snap' = [snap EXCEPT !.middlewares = middlewares]
    /\ pc' = "routers"
    /\ UNCHANGED <<otp, config, middlewares, routers, mux, log, exchange>>
    /\ UNCHANGED <<instance, sigint, gopc, ctx, idle, conns>>

\* for _, mw := range s.middlewares (ramchi.go:246-256): the range
\* expression is read once, here.
RangeMiddlewares ==
    /\ pc = "initMux"
    /\ LET b == UseLoaded(middlewares, 1, config.experimental,
                          BuildState(mux, log, FALSE)) IN
          /\ mux' = b.m
          /\ log' = b.log
    /\ snap' = [snap EXCEPT !.middlewares = middlewares]
    /\ pc' = "routers"
    /\ UNCHANGED <<otp, config, middlewares, routers, exchange>>
    /\ UNCHANGED <<instance, sigint, gopc, ctx, idle, conns>>

\* for _, rtr := range s.routers (ramchi.go:258-290): the range expression
\* is read once, here; handler() then returns the mux.
RangeRouters ==
    /\ pc = "routers"
    /\ LET b == MountRouters(routers, 1, config.experimental,
                             BuildState(mux, log, FALSE)) IN
          /\ mux' = b.m
          /\ log' = b.log
          /\ pc' = IF b.panicked THEN "panic" ELSE "built"
    /\ snap' = [snap EXCEPT !.routers = routers]
    /\ UNCHANGED <<otp, config, middlewares, routers, exchange>>
    /\ UNCHANGED <<instance, sigint, gopc, ctx, idle, conns>>

\* s.instance is set with the mux as Handler, "Server started" is logged,
\* s.idle is made and the shutdown goroutine is spawned (ramchi.go:147-163).
StartInstance ==
    /\ pc = "built"
    /\ instance' = [NoInstance EXCEPT !.handler = "mux"]
    /\ log' = Append(log, LifeEntry("debug", "Server started"))
    /\ idle' = [made |-> TRUE, closes |-> 0]
    /\ gopc' = "notify"
    /\ pc' = "listen"
    /\ UNCHANGED <<otp, config, middlewares, routers, mux, exchange, snap, sigint, ctx, conns>>

\* The shutdown goroutine: signal.Notify(sigint, os.Interrupt)
\* (ramchi.go:164-165).
SignalNotify ==
    /\ Alive
    /\ gopc = "notify"
    /\ sigint' = [sigint EXCEPT !.notify = TRUE]
    /\ gopc' = "wait"
    /\ UNCHANGED <<otp, config, middlewares, routers, mux, log, exchange, pc>>
    /\ UNCHANGED <<snap, instance, ctx, idle, conns>>

\* <-sigint, then the context with the shutdown timeout (ramchi.go:166-170).
ReceiveSigint ==
    /\ Alive
    /\ gopc = "wait"
    /\ sigint.buf = 1
    /\ sigint' = [sigint EXCEPT !.buf = 0]
    /\ ctx' = "live"
    /\ gopc' = "shutdown"
    /\ UNCHANGED <<otp, config, middlewares, routers, mux, log, exchange, pc>>
    /\ UNCHANGED <<snap, instance, idle, conns>>

\* http.Server.Shutdown, first part: the server is marked as shutting down
\* and its listeners are closed (ramchi.go:172).
Shutdown ==
    /\ Alive
    /\ gopc = "shutdown"
    /\ instance' = [instance EXCEPT
                       !.inShutdown = TRUE,
                       !.listener = IF @ = "open" THEN "closed" ELSE @]
    /\ gopc' = "drain"
    /\ UNCHANGED <<otp, config, middlewares, routers, mux, log, exchange, pc>>
    /\ UNCHANGED <<snap, sigint, ctx, idle, conns>>

\* What http.Server.Shutdown returns, given the connections still active
\* and the state of its context: nil once no connection is active, the
\* context's error once the context has expired, and otherwise it keeps
\* waiting.  It closes no active connection.
ShutdownResult(active, c) ==
    IF active = {} THEN "nil"
    ELSE IF c = "expired" THEN "DeadlineExceeded"
    ELSE "wait"

\* err != nil after Shutdown (ramchi.go:172).
ShutdownFailed(err) == err # "nil"

\* Shutdown returns; an error is logged as a warning (ramchi.go:172-174).
ShutdownReturn ==
    /\ Alive
    /\ gopc = "drain"
    /\ LET err == ShutdownResult(ActiveConns, ctx) IN
          /\ err # "wait"
          /\ log' = IF ShutdownFailed(err)
                    THEN Append(log, LifeEntry("warn", "Server shutdown failed!"))
                    ELSE log
          /\ instance' = [instance EXCEPT !.shutdownErr = err]
    /\ gopc' = "close"
    /\ UNCHANGED <<otp, config, middlewares, routers, mux, exchange, pc>>
    /\ UNCHANGED <<snap, sigint, ctx, idle, conns>>

\* A variant of the goroutine's end that returns after the warning, with
\* s.idle left open.
CloseIdle_ReturnOnError ==
    /\ Alive
    /\ gopc = "close"
    /\ idle' = IF ShutdownFailed(instance.shutdownErr) THEN idle
               ELSE [idle EXCEPT !.closes = @ + 1]
    /\ gopc' = "done"
    /\ UNCHANGED <<otp, config, middlewares, routers, mux, log, exchange, pc>>
    /\ UNCHANGED <<snap, instance, sigint, ctx, conns>>

\* close(s.idle) and the end of the goroutine (ramchi.go:175-176).
CloseIdle ==
    /\ Alive
    /\ gopc = "close"
    /\ idle' = [idle EXCEPT !.closes = @ + 1]
    /\ gopc' = "done"
    /\ UNCHANGED <<otp, config, middlewares, routers, mux, log, exchange, pc>>
    /\ UNCHANGED <<snap, instance, sigint, ctx, conns>>

\* The shutdown timeout elapses.
Timeout ==
    /\ Alive
    /\ ctx = "live"
    /\ ctx' = "expired"
    /\ UNCHANGED <<otp, config, middlewares, routers, mux, log, exchange, pc>>
    /\ UNCHANGED <<snap, instance, sigint, gopc, idle, conns>>

\* The process gets an interrupt while Start runs.  With the channel
\* registered the signal is queued on it (the channel holds one signal,
\* more are dropped); with nothing registered the signal ends the process.
Interrupt ==
    /\ Starting
    /\ IF sigint.notify
       THEN /\ sigint' = [sigint EXCEPT !.buf = 1, !.signalled = TRUE]
            /\ UNCHANGED <<pc, conns>>
       ELSE /\ sigint' = [sigint EXCEPT !.signalled = TRUE]
            /\ pc' = "killed"
            /\ conns' = CutAll(conns)
    /\ UNCHANGED <<otp, config, middlewares, routers, mux, log, exchange>>
    /\ UNCHANGED <<snap, instance, gopc, ctx, idle>>

\* A variant of the error test that lets a failed listen pass.
IsFatal_OnlyCert(err) == err = "cert"

\* err != nil && err != http.ErrServerClosed (ramchi.go:180, 185).
IsFatal(err) == err # "nil" /\ err # "ErrServerClosed"

\* ListenAndServe or ListenAndServeTLS has returned err, with inst the
\* http.Server and lg the log at that point: a fatal error is logged
\* through logger.Fatal, which ends the process; otherwise the main flow
\* goes on to wait for s.idle (ramchi.go:180-190).
ServeReturned(err, inst, lg) ==
    /\ instance' = [inst EXCEPT !.err = err]
    /\ IF IsFatal(err)
       THEN /\ log' = Append(lg, LifeEntry("fatal",
                          IF config.enableTLS THEN "HTTPS server failed"
                          ELSE "HTTP server failed"))
            /\ pc' = "exited"
            /\ conns' = CutAll(conns)
       ELSE /\ log' = lg
            /\ pc' = "waitIdle"
            /\ UNCHANGED conns

\* The main flow logs "Starting HTTP(S) server" and calls ListenAndServe or
\* ListenAndServeTLS (ramchi.go:178-185).  net/http: a server that is
\* already shutting down returns ErrServerClosed at once; otherwise the
\* address is bound, which can fail, and the listener is open from then on.
ListenAndServe ==
    /\ pc = "listen"
    /\ LET lg == Append(log, LifeEntry("info",
                     IF config.enableTLS THEN "Starting HTTPS server"
                     ELSE "Starting HTTP server"))
           tried == [instance EXCEPT !.listens = @ + 1]
       IN  \/ /\ instance.inShutdown
              /\ ServeReturned("ErrServerClosed", instance, lg)
           \/ /\ ~instance.inShutdown
              /\ ServeReturned("bind", tried, lg)
           \/ /\ ~instance.inShutdown
              /\ instance' = [tried EXCEPT !.listener = "open"]
              /\ log' = lg
              /\ pc' = IF config.enableTLS THEN "serveTLS" ELSE "serve"
              /\ UNCHANGED conns
    /\ UNCHANGED <<otp, config, middlewares, routers, mux, exchange>>
    /\ UNCHANGED <<snap, sigint, gopc, ctx, idle>>

\* tls.LoadX509KeyPair(certFile, keyFile): an empty path names no file; the
\* other paths of the model name a valid certificate and key.
LoadX509KeyPair(certFile, keyFile) == certFile # "" /\ keyFile # ""

\* ListenAndServeTLS after the bind: ServeTLS loads the certificate and
\* key; when that fails the listener is closed again and the error is
\* returned (ramchi.go:180).
ServeTLS ==
    /\ pc = "serveTLS"
    /\ IF LoadX509KeyPair(config.tlsCertFile, config.tlsKeyFile)
       THEN /\ pc' = "serve"
            /\ UNCHANGED <<instance, log, conns>>
       ELSE ServeReturned("cert", [instance EXCEPT !.listener = "closed"], log)
    /\ UNCHANGED <<otp, config, middlewares, routers, mux, exchange>>
    /\ UNCHANGED <<snap, sigint, gopc, ctx, idle>>

\* The serve loop accepts a connection and the request on it is in flight;
\* early records whether that was before any interrupt.
Accept(c) ==
    /\ pc = "serve"
    /\ instance.listener = "open"
    /\ conns[c].state = "none"
    /\ conns' = [conns EXCEPT ![c] = [state |-> "active", early |-> ~sigint.signalled]]
    /\ UNCHANGED <<otp, config, middlewares, routers, mux, log, exchange, pc>>
    /\ UNCHANGED <<snap, instance, sigint, gopc, ctx, idle>>

\* The request of a connection gets its response and the connection ends.
Finish(c) ==
    /\ Alive
    /\ conns[c].state = "active"
    /\ conns' = [conns EXCEPT ![c].state = "done"]
    /\ UNCHANGED <<otp, config, middlewares, routers, mux, log, exchange, pc>>
    /\ UNCHANGED <<snap, instance, sigint, gopc, ctx, idle>>

\* The serve loop finds the listener closed by Shutdown: ListenAndServe
\* returns ErrServerClosed.
ServeReturn ==
    /\ pc = "serve"
    /\ instance.inShutdown
    /\ ServeReturned("ErrServerClosed", instance, log)
    /\ UNCHANGED <<otp, config, middlewares, routers, mux, exchange>>
    /\ UNCHANGED <<snap, sigint, gopc, ctx, idle>>

\* A variant of the receive that does not wait for the close.
IdleClosed_Made(ch) == ch.made

\* <-s.idle returns once the channel is closed (ramchi.go:190).
IdleClosed(ch) == ch.closes > 0

\* The main flow gets past <-s.idle, logs "Server stopped" and Start
\* returns (ramchi.go:190-197).
WaitIdle ==
    /\ pc = "waitIdle"
    /\ IdleClosed(idle)
    /\ log' = Append(log, LifeEntry("debug", "Server stopped"))
    /\ pc' = "returned"
    /\ UNCHANGED <<otp, config, middlewares, routers, mux, exchange>>
    /\ UNCHANGED life

StartNext ==
    \/ \E r \in StartRouterCatalog : GoLoadRouter(<<r>>)
    \/ \E m \in StartMiddlewareCatalog : GoLoadMiddleware(<<m>>)
    \/ StartHandler
    \/ RangeMiddlewares
    \/ RangeRouters
    \/ StartInstance
    \/ SignalNotify
    \/ ReceiveSigint
    \/ Shutdown
    \/ ShutdownReturn
    \/ CloseIdle
    \/ Timeout
    \/ Interrupt
    \/ ListenAndServe
    \/ ServeTLS
    \/ \E c \in 1..MaxConns : Accept(c)
    \/ \E c \in 1..MaxConns : Finish(c)
    \/ ServeReturn
    \/ WaitIdle

StartSpec == StartInit /\ [][StartNext]_vars

\* The statements of the main flow and of the goroutine are executed once
\* they can be (both are runnable goroutines), and the timer of the
\* shutdown context fires.
StartFairness ==
    /\ WF_vars(RangeMiddlewares) /\ WF_vars(RangeRouters) /\ WF_vars(StartInstance)
    /\ WF_vars(ListenAndServe) /\ WF_vars(ServeTLS) /\ WF_vars(ServeReturn)
    /\ WF_vars(WaitIdle)
    /\ WF_vars(SignalNotify) /\ WF_vars(ReceiveSigint) /\ WF_vars(Shutdown)
    /\ WF_vars(ShutdownReturn) /\ WF_vars(CloseIdle)
    /\ WF_vars(Timeout)

\* Start on the server of the test suite, with nothing loaded while it
\* runs.
LiveInit ==
    /\ config \in StartConfigs
    /\ middlewares = <<Mw("A", TRUE, FALSE)>>
    /\ routers = <<Rtr(<<"test">>, TestRoutes, TRUE, <<"rm1", "rm2">>)>>
    /\ mux = NewMux
    /\ log = <<>>
    /\ exchange = NoExchange
    /\ pc = "new"
    /\ NotStarted
    /\ otp = NoOTP

LiveNext ==
    \/ StartHandler
    \/ RangeMiddlewares
    \/ RangeRouters
    \/ StartInstance
    \/ SignalNotify
    \/ ReceiveSigint
    \/ Shutdown
    \/ ShutdownReturn
    \/ CloseIdle
    \/ Timeout
    \/ Interrupt
    \/ ListenAndServe
    \/ ServeTLS
    \/ \E c \in 1..MaxConns : Accept(c)
    \/ \E c \in 1..MaxConns : Finish(c)
    \/ ServeReturn
    \/ WaitIdle

StartLive == LiveInit /\ [][LiveNext]_vars /\ StartFairness

\* The entries of the log with the given level and message.
Logged(level, msg) == {k \in 1..Len(log) : log[k].level = level /\ log[k].msg = msg}

\* C11: whenever Start has returned, an interrupt was received on the
\* registered channel, Shutdown was called and has returned, and s.idle
\* has been closed; ListenAndServe having returned ErrServerClosed does
\* not let Start return while s.idle is still open.
C11_StartBlocksUntilShutdown ==
    /\ pc = "returned" =>
          /\ sigint.signalled /\ sigint.notify
          /\ instance.inShutdown
          /\ instance.shutdownErr \in {"nil", "DeadlineExceeded"}
          /\ idle.closes > 0
          /\ gopc = "done"
    /\ (instance.err = "ErrServerClosed" /\ idle.closes = 0) =>
          (pc = "waitIdle" /\ Logged("debug", "Server stopped") = {})

\* C11 witness: Start has returned after ListenAndServe returned
\* ErrServerClosed and the goroutine closed s.idle.
C11_Witness ==
    /\ pc = "returned"
    /\ instance.err = "ErrServerClosed"
    /\ idle.closes = 1
    /\ Logged("debug", "Server stopped") # {}

\* C12: signal.Notify for os.Interrupt has been registered before the
\* server listens: in no state is the listener open, or a connection
\* being served, while an interrupt would not reach the sigint channel.
C12_NotifyBeforeListen ==
    (instance.listener = "open" \/ ActiveConns # {}) => sigint.notify

\* C13: when the shutdown timeout elapsed with connections still active
\* (Shutdown returned the context's error), the server has closed those
\* connections by the time Start returns: none is still being served.
C13_ForcedCloseOnTimeout ==
    (pc = "returned" /\ instance.shutdownErr = "DeadlineExceeded") => ActiveConns = {}

\* C14: once an interrupt has been signalled, no request that was in
\* flight before the signal is cut off unless the shutdown timeout has
\* elapsed, the server accepts nothing once it is shutting down, and when
\* every request finished within the timeout Start returns with no
\* shutdown warning logged.
C14_GracefulDrain ==
    sigint.signalled =>
        /\ \A c \in 1..MaxConns :
              (conns[c].early /\ ctx # "expired") => conns[c].state # "cut"
        /\ instance.inShutdown => instance.listener # "open"
        /\ (pc = "returned" /\ instance.shutdownErr = "nil") =>
              Logged("warn", "Server shutdown failed!") = {}

\* The same statement for an interrupt that found the channel registered.
GracefulDrainOnceRegistered == sigint.notify => C14_GracefulDrain

\* handler() has returned the mux to Start.
HandlerReturned == pc \in {"built", "listen", "serveTLS", "serve", "waitIdle", "returned"}

IsPrefix(p, q) == Len(p) <= Len(q) /\ SubSeq(q, 1, Len(p)) = p

\* C15 as claimed: one build per Start, and the mux is the build of the
\* lists as they were when Start began building: no load made after that
\* is in it.
C15_SnapshotAtStart ==
    HandlerReturned =>
        /\ snap.builds = 1
        /\ mux = initMux(config, snap.begun.middlewares, snap.begun.routers, <<>>).m

\* C15: one build per Start, and the mux is the build of each list as it
\* was when the range statement over it read it: a load made after that
\* read, during the rest of the build or while the server runs, changes
\* neither the routes nor the middleware chain of the mux.
C15_SnapshotAtRange ==
    HandlerReturned =>
        /\ snap.builds = 1
        /\ mux = initMux(config, snap.middlewares, snap.routers, <<>>).m
        /\ IsPrefix(snap.begun.middlewares, snap.middlewares)
        /\ IsPrefix(snap.middlewares, middlewares)
        /\ IsPrefix(snap.begun.routers, snap.routers)
        /\ IsPrefix(snap.routers, routers)

\* C15 witness: the server is serving; a router loaded after the range
\* statement had read s.routers is in the list but not in the mux.
C15_Witness ==
    /\ pc = "serve"
    /\ Len(routers) > Len(snap.routers)
    /\ Len(snap.routers) > 0
    /\ Len(mux.mounts) = Len(snap.routers)

\* The running process is accepting connections or serving one.
Accepting == Alive /\ (instance.listener = "open" \/ ActiveConns # {})

\* Layer k of the root stack is the layer of the activated middleware
\* snap.middlewares[i].
MountedGlobal(i) ==
    \E k \in 1..Len(mux.middlewares) :
        /\ mux.middlewares[k].kind = "custom"
        /\ mux.middlewares[k].src = i
        /\ mux.middlewares[k].name = snap.middlewares[i].name

\* Route ti of router snap.routers[ri] is registered in a mounted
\* sub-router.
MountedRoute(ri, ti) ==
    \E k \in 1..Len(mux.mounts) :
        /\ mux.mounts[k].rtr = ri
        /\ \E j \in 1..Len(mux.mounts[k].sub.routes) :
              /\ mux.mounts[k].sub.routes[j].src = ti
              /\ mux.mounts[k].sub.routes[j].method = snap.routers[ri].routes[ti].method

\* C16: the dispatch graph is complete before a request can be served and
\* is never modified afterwards: whenever the server is accepting, the
\* handler of the http.Server is the mux returned by handler(), every
\* activated middleware and every activated route of an enabled router,
\* of the lists the build read, is mounted, and the mux is the whole
\* build of those lists; and from the moment the mux is the server's
\* handler no step changes it.
C16_BuiltBeforeServing ==
    /\ [](Accepting =>
            /\ instance.handler = "mux"
            /\ HandlerReturned
            /\ \A i \in 1..Len(snap.middlewares) :
                  Activated(snap.middlewares[i]) => MountedGlobal(i)
            /\ \A ri \in 1..Len(snap.routers) :
                  snap.routers[ri].status =>
                      \A ti \in 1..Len(snap.routers[ri].routes) :
                          Activated(snap.routers[ri].routes[ti]) => MountedRoute(ri, ti)
            /\ mux = initMux(config, snap.middlewares, snap.routers, <<>>).m)
    /\ [][instance.handler = "mux" => (mux' = mux /\ instance'.handler = "mux")]_vars

\* C16 witness: a request is in flight on a server whose mux holds a
\* loaded middleware and a router with its routes.
C16_Witness ==
    /\ ActiveConns # {}
    /\ MountedGlobal(1)
    /\ MountedRoute(1, 1)
    /\ Len(mux.mounts[1].sub.routes) > 0

\* Shutdown has returned the error of its expired context.
ShutdownTimedOut == instance.shutdownErr = "DeadlineExceeded"

\* C17: a shutdown error is not fatal.  Once Shutdown has returned an
\* error, exactly one warning is in the log, nothing was logged at fatal
\* level and the process has not exited; s.idle is never closed twice;
\* without an error no warning is logged; and after a shutdown error Start
\* eventually returns, with s.idle closed once and "Server stopped" logged.
C17_ShutdownErrorNonFatal ==
    /\ [](ShutdownTimedOut =>
            /\ Cardinality(Logged("warn", "Server shutdown failed!")) = 1
            /\ \A k \in 1..Len(log) : log[k].level # "fatal"
            /\ Alive)
    /\ [](idle.closes <= 1)
    /\ [](instance.shutdownErr = "nil" => Logged("warn", "Server shutdown failed!") = {})
    /\ (ShutdownTimedOut ~>
            (/\ pc = "returned"
             /\ idle.closes = 1
             /\ Cardinality(Logged("debug", "Server stopped")) = 1))

\* C17 witness: Start has returned after a shutdown that timed out, with
\* the warning in the log before "Server stopped".
C17_Witness ==
    /\ ShutdownTimedOut
    /\ pc = "returned"
    /\ \E j \in Logged("warn", "Server shutdown failed!") :
          \E k \in Logged("debug", "Server stopped") : j < k

ListenFailed == instance.err \in {"bind", "cert"}

FatalEntries == {k \in 1..Len(log) : log[k].level = "fatal"}

\* C18: a listener failure is fatal and not retried.  When ListenAndServe
\* or ListenAndServeTLS has returned an error other than ErrServerClosed,
\* the last entry of the log is the one fatal entry, the process has
\* exited, the listen was attempted once and "Server stopped" is not in
\* the log; ErrServerClosed, and only it, lets the main flow go on to wait
\* for s.idle with nothing logged at fatal level; no server ever listens
\* twice, and an exited process takes no further step.
C18_ListenFailureFatal ==
    /\ [](ListenFailed =>
            /\ pc = "exited"
            /\ Cardinality(FatalEntries) = 1
            /\ Len(log) \in FatalEntries
            /\ instance.listens = 1
            /\ Logged("debug", "Server stopped") = {})
    /\ [](instance.err = "ErrServerClosed" =>
            (pc \in {"waitIdle", "returned"} /\ FatalEntries = {}))
    /\ [](FatalEntries # {} => ListenFailed)
    /\ [](instance.listens <= 1)
    /\ [][pc = "exited" => UNCHANGED vars]_vars

\* C18 witness: the bind of a plain HTTP server failed, "HTTP server
\* failed" was logged at fatal level and the process exited.
C18_Witness ==
    /\ instance.err = "bind"
    /\ ~config.enableTLS
    /\ pc = "exited"
    /\ log[Len(log)] = LifeEntry("fatal", "HTTP server failed")

\* C19: a TLS-enabled server without a certificate path or without a key
\* path never opens its listener: the fatal error comes before the address
\* is bound.
C19_NoListenerWithoutCert ==
    (config.enableTLS /\ (config.tlsCertFile = "" \/ config.tlsKeyFile = ""))
        => instance.listener = "none"

\* The registrations of the mux in mount order: for every mount, in the
\* order of the mounts, the routes of its sub-router in the order they
\* were registered, each with the router it belongs to.
RECURSIVE Registrations(_, _)
Registrations(mounts, k) ==
    IF k > Len(mounts) THEN <<>>
    ELSE [j \in 1..Len(mounts[k].sub.routes) |->
              [rtr |-> mounts[k].rtr, reg |-> mounts[k].sub.routes[j]]]
           \o Registrations(mounts, k + 1)

MiddlewareEntries == SelectSeq(log, LAMBDA e : e.msg = "Registering middleware")

RouteEntries == SelectSeq(log, LAMBDA e : e.msg = "Registering route")

\* C20: the log of a built dispatch graph is, at debug level, one
\* "Registering middleware" entry for every layer of the root stack, in
\* stack order and with the name and flags of its middleware, followed by
\* one "Registering route" entry for every registration of the mux, in
\* mount order and with the method, the joined path and the flags of its
\* route; it holds nothing else, so nothing that was skipped is logged and
\* the number of "Registering route" entries is the number of routes
\* registered.
C20_OneEntryPerMount ==
    Built =>
        LET regs == Registrations(mux.mounts, 1) IN
        /\ \A k \in 1..Len(log) : log[k].level = "debug"
        /\ log = MiddlewareEntries \o RouteEntries
        /\ Len(MiddlewareEntries) = Len(mux.middlewares)
        /\ \A k \in 1..Len(MiddlewareEntries) :
              LET e == MiddlewareEntries[k]
                  l == mux.middlewares[k]
              IN  /\ e.name = l.name
                  /\ IF l.kind = "custom"
                     THEN /\ e.experimental = middlewares[l.src].experimental
                          /\ e.status = middlewares[l.src].status
                          /\ Activated(middlewares[l.src])
                     ELSE e.status /\ ~e.experimental
        /\ Len(RouteEntries) = Len(regs)
        /\ \A k \in 1..Len(RouteEntries) :
              LET e == RouteEntries[k]
                  rtr == routers[regs[k].rtr]
                  rt == rtr.routes[regs[k].reg.src]
              IN  /\ e.method = rt.method
                  /\ e.path = Join(<< <<Slash>>, rtr.prefix, rt.path >>)
                  /\ e.experimental = rt.experimental
                  /\ e.status = rt.status
                  /\ rtr.status
                  /\ Activated(rt)

\* C20 witness: a built graph with a mounted and a skipped loaded
\* middleware, a disabled router next to a mounted one, and skipped routes
\* in the mounted router; the log holds entries of both kinds.
C20_Witness ==
    /\ Built
    /\ Len(MiddlewareEntries) > 0
    /\ Len(RouteEntries) > 0
    /\ \E i \in 1..Len(middlewares) : ~Activated(middlewares[i])
    /\ \E i \in 1..Len(middlewares) : Activated(middlewares[i])
    /\ \E ri \in 1..Len(routers) : ~routers[ri].status
    /\ \E ri \in 1..Len(routers) :
          /\ routers[ri].status
          /\ \E ti \in 1..Len(routers[ri].routes) : ~Activated(routers[ri].routes[ti])

\* The layer is one of the built-ins initMux takes from the configuration.
IsBuiltin(layer) == layer.level = "global" /\ layer.src = 0

\* The layer comes from a middleware given to LoadMiddleware.
IsLoaded(layer) == layer.level = "global" /\ layer.src > 0

\* The built-in layers a stack or a trace holds.
BuiltinsOf(layers) == SelectSeq(layers, IsBuiltin)

\* C21: the built-in middleware (logger injection, CORS) sit on the root
\* stack in front of every loaded middleware, however many LoadMiddleware
\* calls filled the list; a request that enters a loaded middleware has
\* entered every mounted built-in before it, and no request enters a
\* built-in after a loaded middleware.
C21_BuiltinsFirst ==
    /\ Built =>
          \A p, q \in 1..Len(mux.middlewares) :
              (IsBuiltin(mux.middlewares[p]) /\ IsLoaded(mux.middlewares[q])) => p < q
    /\ Served =>
          /\ \A p, q \in 1..Len(exchange.trace) :
                (IsBuiltin(exchange.trace[p]) /\ IsLoaded(exchange.trace[q])) => p < q
          /\ (\E q \in 1..Len(exchange.trace) : IsLoaded(exchange.trace[q])) =>
                [k \in 1..Len(BuiltinsOf(exchange.trace)) |-> BuiltinsOf(exchange.trace)[k].name]
                  = [k \in 1..Len(BuiltinsOf(mux.middlewares)) |->
                        BuiltinsOf(mux.middlewares)[k].name]

\* C21 witness: two loaded middleware are mounted behind both built-ins,
\* and a request has entered the logger injection, the CORS layer and
\* then the two loaded middleware on its way to a handler.
C21_Witness ==
    /\ HandlerReached
    /\ Len(middlewares) = 2
    /\ Len(exchange.trace) > 4
    /\ exchange.trace[1].name = "ramchi_logger_inject"
    /\ exchange.trace[2].name = "ramchi_cors"
    /\ IsLoaded(exchange.trace[3]) /\ exchange.trace[3].src = 1
    /\ IsLoaded(exchange.trace[4]) /\ exchange.trace[4].src = 2

\* log.FromContext on the request a handler receives: the value stored
\* under the logger key, nil when nothing was stored
\* (unnamed/part_005:32-37).
FromContext(ex) == ex.logger

\* C22: a route handler reached through the logger injection gets from
\* log.FromContext the logger the middleware was created with, the
\* server's, and never nil; a handler reached without it gets nil.  The
\* injection is mounted exactly when enableRequestLogging is set.
C22_LoggerInjected ==
    HandlerReached =>
        LET injected == \E p \in 1..Len(exchange.trace) :
                            exchange.trace[p].name = "ramchi_logger_inject"
        IN  /\ injected <=> config.enableRequestLogging
            /\ injected => FromContext(exchange) = ServerLogger
            /\ ~injected => FromContext(exchange) = NoLogger

\* C22 witness: with request logging on, a route handler has answered a
\* request that went through router-local and route-local middleware and
\* carries the server's logger.
C22_Witness ==
    /\ HandlerReached
    /\ config.enableRequestLogging
    /\ Len(LevelTrace("route")) > 0
    /\ FromContext(exchange) = ServerLogger

\* C22 second case: with request logging off, a route handler has answered
\* a request whose context holds no logger.
C22_WitnessNil ==
    /\ HandlerReached
    /\ ~config.enableRequestLogging
    /\ FromContext(exchange) = NoLogger

\* C23: every step leaves each list a prefix of its new value; a step that
\* changes the router list appends the argument of one LoadRouter call and
\* leaves the middleware list alone, a step that changes the middleware
\* list appends the argument of one LoadMiddleware call and leaves the
\* router list alone.  The lists are thus the concatenation of the
\* arguments in call order, and nothing is ever removed or reordered.
C23_AppendOnly ==
    [][/\ IsPrefix(routers, routers')
       /\ IsPrefix(middlewares, middlewares')
       /\ routers' # routers =>
             /\ middlewares' = middlewares
             /\ \E rs \in Batches(RouterCatalog, MaxRouters) : routers' = routers \o rs
       /\ middlewares' # middlewares =>
             /\ routers' = routers
             /\ \E ms \in Batches(MiddlewareCatalog, MaxMiddlewares) :
                   middlewares' = middlewares \o ms]_vars

\* C23 witness: both lists hold two different descriptors, in an order
\* that is not the order of any catalog, and the graph has been built and
\* has served a request with the lists as the calls left them.
C23_Witness ==
    /\ Served
    /\ Len(routers) = 2 /\ routers[1] # routers[2]
    /\ Len(middlewares) = 2
    /\ middlewares[1].name = "B" /\ middlewares[2].name = "A"

\* The indices, in the route's middleware list, of the route-local layers
\* the served request entered, in the order it entered them.
RouteTrace == [p \in 1..Len(LevelTrace("route")) |-> LevelTrace("route")[p].src]

\* C24: a request that reaches the handler of a route with the local
\* middleware list [m1, ..., mn] has entered mn first and m1 last, directly
\* before the handler: the registered handler is mn(...(m1(handler))), the
\* last listed middleware outermost.
C24_RouteWrapOrder ==
    HandlerReached =>
        LET rt == routers[exchange.rtr].routes[exchange.trace[Len(exchange.trace)].src]
            n == Len(rt.middleware)
        IN  /\ Len(RouteTrace) = n
            /\ \A p \in 1..n :
                  /\ RouteTrace[p] = n + 1 - p
                  /\ LevelTrace("route")[p].name = rt.middleware[n + 1 - p]
            /\ n > 0 =>
                  LET last == exchange.trace[Len(exchange.trace) - 1] IN
                  last.level = "route" /\ last.src = 1 /\ last.name = rt.middleware[1]

\* C24 witness: the handler of a route listing [tm1, tm2] has answered a
\* request that entered tm2 and then tm1.
C24_Witness ==
    /\ HandlerReached
    /\ Len(LevelTrace("route")) = 2
    /\ LevelTrace("route")[1].name = "tm2"
    /\ LevelTrace("route")[2].name = "tm1"
    /\ routers[exchange.rtr].routes[exchange.trace[Len(exchange.trace)].src].middleware
          = <<"tm1", "tm2">>

(***************************************************************************)
(* Building twice.  handler() makes a fresh mux and runs initMux on it     *)
(* every time it is called (once per Start); Rebuild is a second call on   *)
(* a server whose lists have not changed since the first.                  *)
(***************************************************************************)
\* A variant of the second build in the manner of an earlier Start
\* (unnamed/part_002:64-75), which loaded the built-ins into s.middlewares
\* with LoadMiddleware before building.
Rebuild_LoadingBuiltins ==
    /\ pc = "built"
    /\ LET cors == IF config.enableCORS /\ Len(config.allowedOrigins) > 0
                   THEN <<Mw("ramchi_cors", TRUE, FALSE)>> ELSE <<>>
           logging == IF config.enableRequestLogging
                      THEN <<Mw("ramchi_logger_inject", TRUE, FALSE)>> ELSE <<>>
           loaded == middlewares \o cors \o logging
           b == initMux(config, loaded, routers, log)
       IN  /\ middlewares' = loaded
           /\ mux' = b.m
           /\ log' = b.log
           /\ pc' = IF b.panicked THEN "panic" ELSE "rebuilt"
    /\ UNCHANGED <<otp, config, routers, exchange>>
    /\ UNCHANGED life

\* Server.handler called again: another fresh mux, initialised by initMux
\* from the lists as they are now (ramchi.go:206-219).
Rebuild ==
    /\ pc = "built"
    /\ LET b == initMux(config, middlewares, routers, log) IN
          /\ mux' = b.m
          /\ log' = b.log
          /\ pc' = IF b.panicked THEN "panic" ELSE "rebuilt"
    /\ UNCHANGED <<otp, config, middlewares, routers, exchange>>
    /\ UNCHANGED life

RebuildNext ==
    \/ \E rs \in Batches(RouterCatalog, MaxRouters) : LoadRouter(rs)
    \/ \E ms \in Batches(MiddlewareCatalog, MaxMiddlewares) : LoadMiddleware(ms)
    \/ handler
    \/ Rebuild

RebuildSpec == Init /\ [][RebuildNext]_vars

\* The names of the built-in middleware.
BuiltinNames == {"ramchi_logger_inject", "ramchi_cors"}

RegisteredPattern(rtr, reg) == MountPattern(rtr) \o reg.pattern

\* C27: in a built dispatch graph the path of every "Registering route"
\* entry, path.Join("/", prefix, path), is the pattern under which the
\* route it was written for is registered.
C27_LoggedPathIsPattern ==
    Built =>
        LET regs == Registrations(mux.mounts, 1) IN
        \A k \in 1..Len(RouteEntries) :
            k <= Len(regs) =>
                RouteEntries[k].path = RegisteredPattern(routers[regs[k].rtr], regs[k].reg)

\* The mux without its CORS layer: what the CORS handler calls as next is
\* the rest of this mux.
WithoutCORS(m) == [m EXCEPT !.middlewares = SelectSeq(@, LAMBDA l : l.kind # "cors")]

\* The response headers the CORS handler writes for an allowed origin.
CorsHeaders(origin) ==
    { <<"Access-Control-Allow-Origin", origin>>,
      <<"Vary", "Origin">>,
      <<"Access-Control-Allow-Methods", "GET, POST, PUT, DELETE, OPTIONS">>,
      <<"Access-Control-Allow-Headers", "Accept, Authorization, Content-Type, X-CSRF-Token">>,
      <<"Access-Control-Allow-Credentials", "true">> }

\* The CORS handler passed the served request on, once: the layer was
\* entered once and the request went on exactly as it goes through the
\* same mux without the CORS layer (same layers entered behind it, same
\* status, body and logger, same headers apart from what CORS wrote).
PassedOnOnce(written) ==
    LET plain == ServeMux(WithoutCORS(mux), exchange.req) IN
    /\ Cardinality({p \in 1..Len(exchange.trace) : exchange.trace[p].name = "ramchi_cors"}) = 1
    /\ SelectSeq(exchange.trace, LAMBDA e : e.name # "ramchi_cors") = plain.trace
    /\ exchange.status = plain.status
    /\ exchange.body = plain.body
    /\ exchange.logger = plain.logger
    /\ exchange.rtr = plain.rtr
    /\ exchange.header = plain.header \cup written

\* C29 as claimed: a request with another method than OPTIONS that enters
\* the CORS middleware is passed on once whether or not its Origin is
\* allowed; with a disallowed or an absent Origin no CORS header is
\* written, and otherwise Access-Control-Allow-Origin is the request's
\* Origin.
C29_AbsentOriginSuppressed ==
    (CorsEntered /\ exchange.req.method # "OPTIONS") =>
        LET origin == exchange.req.origin
            suppressed == origin = "" \/ ~OriginAllowed(config.allowedOrigins, origin)
        IN  /\ PassedOnOnce(IF suppressed THEN {} ELSE CorsHeaders(origin))
            /\ suppressed => HeaderNames(exchange.header) \cap AllowHeaders = {}
            /\ ~suppressed => HeaderValues("Access-Control-Allow-Origin") = {origin}

\* C29: a request with another method than OPTIONS that enters the CORS
\* middleware is passed on once whether or not its Origin is allowed; with
\* an Origin that is not allowed no CORS header is written, and with an
\* allowed one Access-Control-Allow-Origin is the request's Origin.  A
\* request without Origin header is allowed under ["*"] like any other and
\* gets the headers, with an empty Access-Control-Allow-Origin.
C29_NeverBlocks ==
    (CorsEntered /\ exchange.req.method # "OPTIONS") =>
        LET origin == exchange.req.origin
            allowed == IF config.allowedOrigins = <<"*">> THEN TRUE
                       ELSE \E k \in 1..Len(config.allowedOrigins) :
                                config.allowedOrigins[k] = origin
        IN  /\ PassedOnOnce(IF allowed THEN CorsHeaders(origin) ELSE {})
            /\ ~allowed => HeaderNames(exchange.header) \cap AllowHeaders = {}
            /\ allowed => HeaderValues("Access-Control-Allow-Origin") = {origin}

\* C29 witness: with allowedOrigins = ["http://example.com"], a GET from
\* http://evil.com went through the CORS middleware to a route handler and
\* was answered 201 without any CORS header.
C29_Witness ==
    /\ CorsEntered
    /\ HandlerReached
    /\ config.allowedOrigins = <<"http://example.com">>
    /\ exchange.req.method = "GET"
    /\ exchange.req.origin = "http://evil.com"
    /\ exchange.status = 201
    /\ HeaderNames(exchange.header) \cap AllowHeaders = {}

\* C29 second case: under ["*"] a GET without Origin header reached a
\* route handler and carries an empty Access-Control-Allow-Origin.
C29_WitnessAbsentOrigin ==
    /\ CorsEntered
    /\ HandlerReached
    /\ config.allowedOrigins = <<"*">>
    /\ exchange.req.origin = ""
    /\ <<"Access-Control-Allow-Origin", "">> \in exchange.header

\* How many layers of a kind the root stack holds.
Mounted(kind) == Len(SelectSeq(mux.middlewares, LAMBDA l : l.kind = kind))

\* The built-ins on the root stack of a build of the current middleware
\* list when the experimental toggle has the value toggle (the stack is
\* complete before the first router is mounted).
BuiltinsUnder(toggle) ==
    LET cfg == [config EXCEPT !.experimental = toggle] IN
    BuiltinsOf(UseLoaded(middlewares, 1, cfg.experimental,
                   UseBuiltins(cfg, BuildState(NewMux, <<>>, FALSE))).m.middlewares)

\* C30: in a built dispatch graph the logger injection is on the root
\* stack once if enableRequestLogging is set and not at all otherwise, and
\* the CORS middleware, with the configured origin list, once if
\* enableCORS is set and allowedOrigins is not empty and not at all
\* otherwise; the experimental toggle makes no difference to either.
C30_BuiltinsFromConfig ==
    Built =>
        /\ Mounted("logger") = IF config.enableRequestLogging THEN 1 ELSE 0
        /\ Mounted("cors") =
              IF config.enableCORS /\ Len(config.allowedOrigins) > 0 THEN 1 ELSE 0
        /\ \A p \in 1..Len(mux.middlewares) :
              mux.middlewares[p].kind = "cors" =>
                  mux.middlewares[p].origins = config.allowedOrigins
        /\ Mounted("logger") + Mounted("cors") = Len(BuiltinsOf(mux.middlewares))
        /\ BuiltinsUnder(TRUE) = BuiltinsOf(mux.middlewares)
        /\ BuiltinsUnder(FALSE) = BuiltinsOf(mux.middlewares)

\* C30 witness: with the experimental toggle on, request logging on and
\* CORS enabled with an empty origin list, a graph was built that holds
\* the logger injection, no CORS layer and a loaded experimental
\* middleware.
C30_Witness ==
    /\ Built
    /\ config.experimental
    /\ config.enableRequestLogging
    /\ config.enableCORS /\ config.allowedOrigins = <<>>
    /\ Mounted("logger") = 1
    /\ Mounted("cors") = 0
    /\ \E j \in 1..Len(LoadedLayers) : middlewares[LoadedLayers[j].src].experimental

(***************************************************************************)
(* helpers.GenerateOTP (unnamed/part_009:70-100).  A string is the         *)
(* sequence of its bytes.  The call draws one byte of crypto/rand per      *)
(* iteration and keeps it only below max = 256 - (256 % charsetLen);       *)
(* redrawn records that some byte was not kept, partial that a kept byte   *)
(* lay in the last, incomplete run of charsetLen values below 256.         *)
(***************************************************************************)
MaxOTPLen == 2

\* "23456789ABCDEFGHJKLMNPQRSTUVWXYZ"
DefaultCharset ==
    << 50, 51, 52, 53, 54, 55, 56, 57, 65, 66, 67, 68, 69, 70, 71, 72,
       74, 75, 76, 77, 78, 80, 81, 82, 83, 84, 85, 86, 87, 88, 89, 90 >>

\* A charset longer than a byte has values: "ABC" repeated.
LongCharsetLen == 257

LongCharset == [k \in 1..LongCharsetLen |-> 65 + (k % 3)]

\* The charsets passed: none, "AB", "ABC" (256 is not a multiple of 3), a
\* single character, and the long one.
Charsets == { <<>>, <<65, 66>>, <<65, 66, 67>>, <<48>>, LongCharset }

\* What one crypto/rand byte can be.
ByteValues == 0..255

OTPInit ==
    /\ config = [experimental |-> FALSE, enableRequestLogging |-> FALSE,
                 enableCORS |-> FALSE, allowedOrigins |-> <<"*">>]
    /\ middlewares = <<>>
    /\ routers = <<>>
    /\ mux = NewMux
    /\ log = <<>>
    /\ exchange = NoExchange
    /\ pc = "new"
    /\ NotStarted
    /\ otp \in { [NoOTP EXCEPT !.pc = "called", !.length = n, !.passed = cs,
                                !.charset = cs] :
                    n \in (-1)..MaxOTPLen, cs \in Charsets }

\* A variant of the test that keeps every byte.
Kept_Always(val, charsetLen) == TRUE

\* Whether a drawn byte is kept (part_009:89-93).
Kept(val, charsetLen) ==
    LET max == 256 - (256 % charsetLen) IN ~(val >= max)

\* The entry of GenerateOTP, up to the loop (part_009:71-80).
Enter_GenerateOTP ==
    /\ otp.pc = "called"
    /\ IF otp.length <= 0
       THEN otp' = [otp EXCEPT !.pc = "returned", !.result = <<>>,
                               !.err = "GenerateOTP: length must be > 0"]
       ELSE LET charset == IF otp.charset = <<>> THEN DefaultCharset ELSE otp.charset IN
            otp' = [otp EXCEPT !.pc = "loop", !.charset = charset,
                               !.charsetLen = Len(charset),
                               !.otp = [k \in 1..otp.length |-> 0], !.i = 0]
    /\ UNCHANGED <<config, middlewares, routers, mux, log, exchange, pc>>
    /\ UNCHANGED life

\* One iteration of the loop with rand.Read delivering val
\* (part_009:82-96): the byte is dropped and i stays, or it selects
\* charset[val%charsetLen] (byte val%charsetLen of a Go string, position
\* val%charsetLen + 1 here) for otp[i].
ReadByte(val) ==
    /\ otp.pc = "loop"
    /\ otp.i < otp.length
    /\ IF Kept(val, otp.charsetLen)
       THEN otp' = [otp EXCEPT !.otp[otp.i + 1] = otp.charset[(val % otp.charsetLen) + 1],
                               !.i = otp.i + 1,
                               !.partial = @ \/ ((val \div otp.charsetLen) + 1)
                                                    * otp.charsetLen > 256]
       ELSE otp' = [otp EXCEPT !.redrawn = TRUE]
    /\ UNCHANGED <<config, middlewares, routers, mux, log, exchange, pc>>
    /\ UNCHANGED life

\* rand.Read returns an error (part_009:84-87).
ReadFailed ==
    /\ otp.pc = "loop"
    /\ otp.i < otp.length
    /\ otp' = [otp EXCEPT !.pc = "returned", !.result = <<>>,
                          !.err = "GenerateOTP: failed to read random byte"]
    /\ UNCHANGED <<config, middlewares, routers, mux, log, exchange, pc>>
    /\ UNCHANGED life

\* The loop is left: return string(otp), nil (part_009:81,99).
Return_GenerateOTP ==
    /\ otp.pc = "loop"
    /\ ~(otp.i < otp.length)
    /\ otp' = [otp EXCEPT !.pc = "returned", !.result = otp.otp, !.err = "nil"]
    /\ UNCHANGED <<config, middlewares, routers, mux, log, exchange, pc>>
    /\ UNCHANGED life

OTPNext ==
    \/ Enter_GenerateOTP
    \/ \E val \in ByteValues : ReadByte(val)
    \/ ReadFailed
    \/ Return_GenerateOTP

OTPSpec == OTPInit /\ [][OTPNext]_vars

\* The bytes of a string.
Bytes(str) == {str[k] : k \in 1..Len(str)}

\* The charset a call draws from: the one passed, the default for "".
CharsetOf(passed) == IF passed = <<>> THEN DefaultCharset ELSE passed

\* The largest multiple of n that does not exceed 256.
LargestMultiple(n) == CHOOSE m \in 0..256 : m % n = 0 /\ m + n > 256

\* C26: a call with length <= 0 returns an error and the empty string; a
\* call that returns without error was given a positive length and
\* returns exactly length bytes, each a byte of the charset passed or, if
\* that is empty, of the default charset; the test of the loop keeps a
\* byte exactly when it is below the largest multiple of len(charset) that
\* does not exceed 256, and no byte outside that range was ever kept.
C26_OTPShape ==
    /\ ~otp.partial
    /\ otp.pc = "loop" =>
          /\ otp.charset = CharsetOf(otp.passed)
          /\ LET limit == LargestMultiple(Len(CharsetOf(otp.passed))) IN
                \A val \in ByteValues : Kept(val, otp.charsetLen) <=> val < limit
    /\ otp.pc = "returned" =>
          /\ otp.length <= 0 => (otp.err # "nil" /\ otp.result = <<>>)
          /\ otp.err # "nil" => otp.result = <<>>
          /\ otp.err = "nil" =>
                /\ otp.length > 0
                /\ Len(otp.result) = otp.length
                /\ Bytes(otp.result) \subseteq Bytes(CharsetOf(otp.passed))

\* C26 witness: GenerateOTP(2, "ABC") has returned "CA" without error
\* after a byte was drawn again.
C26_Witness ==
    /\ otp.pc = "returned"
    /\ otp.err = "nil"
    /\ otp.passed = <<65, 66, 67>>
    /\ otp.length = 2
    /\ otp.redrawn
    /\ otp.result = <<67, 65>>

\* C26 further cases: GenerateOTP(1, "") has returned a character of the
\* default charset; GenerateOTP(0, "AB") has returned an error.
C26_WitnessDefault ==
    /\ otp.pc = "returned"
    /\ otp.err = "nil"
    /\ otp.passed = <<>>
    /\ otp.result = <<90>>

C26_WitnessError ==
    /\ otp.pc = "returned"
    /\ otp.length = 0
    /\ otp.passed = <<65, 66>>
    /\ otp.err = "GenerateOTP: length must be > 0"
    /\ otp.result = <<>>

\* C28: whenever the loop of GenerateOTP runs, some byte value is kept, so
\* that with a fair random source every position is filled and the call
\* returns.
C28_AcceptableByteExists ==
    (otp.pc = "loop" /\ otp.i < otp.length) =>
        \E val \in ByteValues : Kept(val, otp.charsetLen)

\* The same for a charset of at most 256 bytes.
AcceptableByteUpTo256 ==
    (otp.pc = "loop" /\ otp.i < otp.length /\ otp.charsetLen <= 256) =>
        \E val \in ByteValues : Kept(val, otp.charsetLen)

====
